---- MODULE Spec2Model ----
(***************************************************************************)
(* State-machine model of the football data pipeline:                      *)
(*   - the player resolver  (Processing/soFIFA/Players/merge_players.py)   *)
(*   - the listing crawlers (soFIFAClubs_url_scraper.py,                   *)
(*                           scrape_player_urls.py)                        *)
(*   - the detail crawler   (soFIFAClubs_scraper.py)                       *)
(* Spec is the resolver; SpecCrawl runs one of the crawlers.               *)
(***************************************************************************)
EXTENDS Integers, Sequences, FiniteSets, TLC

VARIABLES
  \* ---- merge_players.py
  sofifa,            \* left frame: sequence of raw full_name values
  tm,                \* right frame: sequence of raw player_name values
  rpc,               \* position in the script
  sofifa_std,        \* sofifa["std_name"]
  tm_std,            \* tm["std_name"]
  exact_matches,     \* rows of the inner merge: [l, r] index pairs
  unmatched_sofifa,  \* left indices left for the fuzzy loop
  tm_names,          \* candidate list handed to process.extractOne
  fuzzy_results,     \* [l, r, score] rows
  unresolved,        \* left indices
  row,               \* position of the fuzzy loop in unmatched_sofifa
  sofifa_exists,     \* os.path.exists(sofifa_path)
  tm_exists,         \* one of tm_candidates exists (tm_path is not None)
  merged_written,    \* merged_players.csv and unresolved_players.csv written
  \* ---- the crawlers
  which,             \* the program that is run: "resolver", "club", ...
  listing,           \* the source: the listing's pages, each a list of URLs
  base_ok,           \* base_url is a URL the browser can navigate to
  \* ---- soFIFAClubs_url_scraper.py
  cpc,               \* position of the run
  crun,              \* number of the run (1 = first invocation)
  cfresh,            \* args.fresh of this run
  club_csv,          \* club_urls.csv: [exists, rows]
  all_club_urls,     \* self.all_club_urls
  coffset,           \* self.offset
  climit,            \* self.limit
  cdoc,              \* hrefs of the table rows of the document in the page
  cgotos,            \* page.goto calls made for the last offset
  cfail,             \* worst fetch result of this run: "none", "retried"
                     \* (a goto raised, the retry passed), "skipped" (both
                     \* raised, or the page came without its table)
  cexhausted,        \* both attempts of the last iteration raised
  cfound,            \* club_urls.csv as this run found it: [exists, rows], and
                     \* clean: the run before skipped no page
  \* ---- scrape_player_urls.py
  ppc,               \* position of the run
  prun,              \* number of the run
  player_csv,        \* the player URL file: [exists, rows]
  all_player_urls,   \* self.all_player_urls
  poffset,           \* self.offset
  plimit,            \* self.limit
  has_next,          \* has_next
  retries,           \* retries
  pfailed,           \* some attempt of this run failed
  pgotos,            \* page.goto calls made for the offset so far in this run
                     \* (counted up to max_retries + 1)
  pexhausted,        \* a page of this run used up its retries
  \* ---- soFIFAClubs_scraper.py
  dpc,               \* position of the run
  drun,              \* number of the run
  dfresh,            \* args.fresh (args.fresh_stats) of this run
  dpipeline,         \* the run is step 2 of soFIFAClubs.main
  dlimit,            \* args.limit
  urls_file,         \* club_urls.csv as read by load_urls: [exists, rows]
  stats_csv,         \* club_stats_raw.csv: [exists, rows]
  club_urls,         \* self.club_urls
  existing_urls,     \* self.existing_urls
  existing_ids,      \* self.existing_ids
  target,            \* target (the URLs this run will scrape)
  didx,              \* position in target
  results,           \* self.results
  dtried,            \* URLs requested in this run
  dprev,             \* rows of club_stats_raw.csv when this run started
  \* ---- transfermarkt_players.py
  tpc,               \* position in main
  clubs_csv,         \* the clubs CSV: [exists, columns]
  players_written,   \* players_from_365.csv written
  \* ---- the pure functions (normalizers, canonicalizer, parsers, filter)
  fpc,               \* "call" before the function is applied, "return" after
  fn,                \* the function
  farg,              \* its argument
  fres,              \* what it returned
  \* ---- transfermarkt_clubs.py
  lpc,               \* position in the league loop
  unique_leagues,    \* unique_leagues
  lidx,              \* position in unique_leagues
  candidates,        \* candidates of the current league
  cidx,              \* position in candidates
  attempt,           \* attempt of the retry loop
  league_collected,  \* league_collected
  tm_results,        \* results
  requested          \* URLs requested for the current league, in order

rvars == <<sofifa, tm, rpc, sofifa_std, tm_std, exact_matches,
           unmatched_sofifa, tm_names, fuzzy_results, unresolved, row,
           sofifa_exists, tm_exists, merged_written>>

cvars == <<cpc, crun, cfresh, club_csv, all_club_urls, coffset, climit, cdoc,
           cgotos, cfail, cexhausted, cfound>>

pvars == <<ppc, prun, player_csv, all_player_urls, poffset, plimit, has_next,
           retries, pfailed, pgotos, pexhausted>>

dvars == <<dpc, drun, dfresh, dpipeline, dlimit, urls_file, stats_csv, club_urls,
           existing_urls, existing_ids, target, didx, results, dtried, dprev>>

tvars == <<tpc, clubs_csv, players_written>>

fvars == <<fpc, fn, farg, fres>>

lvars == <<lpc, unique_leagues, lidx, candidates, cidx, attempt,
           league_collected, tm_results, requested>>

(***************************************************************************)
(* Bounds of the model.                                                    *)
(***************************************************************************)
MaxLeft == 2
MaxRight == 2
MaxPages == 2     \* pages of the listing that hold rows
MaxLimit == 2     \* largest --limit
MaxRuns == 2      \* invocations of a crawler on the same files
MaxUrls == 2      \* rows of the URL list given to the detail stage

Min(a, b) == IF a <= b THEN a ELSE b
Max(a, b) == IF a >= b THEN a ELSE b

SeqsUpTo(S, n) == UNION {[1..k -> S] : k \in 0..n}

(***************************************************************************)
(* Characters.  A name is a sequence of characters; a character is a       *)
(* one-element token.  Accented characters are written e_acute, ...        *)
(***************************************************************************)
Alphabet ==
  <<"a","b","c","d","e","f","g","h","i","j","k","l","m",
    "n","o","p","q","r","s","t","u","v","w","x","y","z">>

LowerLetters == {Alphabet[i] : i \in 1..Len(Alphabet)}

Ord(c) == CHOOSE i \in 1..Len(Alphabet) : Alphabet[i] = c

\* str.lower() on one character
LowerChar(c) ==
  CASE c = "A" -> "a"
    [] c = "E" -> "e"
    [] c = "B" -> "b"
    [] c = "J" -> "j"
    [] c = "K" -> "k"
    [] c = "M" -> "m"
    [] c = "N" -> "n"
    [] c = "E_acute" -> "e_acute"
    [] OTHER -> c

\* unidecode.unidecode() on one character: an ASCII string, possibly of
\* several characters, possibly upper case
UnidecodeChar(c) ==
  CASE c = "e_acute" -> <<"e">>
    [] c = "u_acute" -> <<"u">>
    [] c = "n_tilde" -> <<"n">>
    [] c = "sharp_s" -> <<"s", "s">>
    [] c = "numero"  -> <<"N", "o">>
    [] c = "en_dash" -> <<"-">>
    [] c = "nbsp"    -> <<" ">>
    [] OTHER -> <<c>>

LowerStr(s) == [i \in 1..Len(s) |-> LowerChar(s[i])]

RECURSIVE UnidecodeStr(_)
UnidecodeStr(s) ==
  IF s = <<>> THEN <<>> ELSE UnidecodeChar(Head(s)) \o UnidecodeStr(Tail(s))

\* re.sub(r"[^a-z ]", " ", name)
SubSymbols(s) ==
  [i \in 1..Len(s) |-> IF s[i] \in LowerLetters \/ s[i] = " " THEN s[i] ELSE " "]

\* str.split(): the maximal runs of non-space characters
RECURSIVE SplitFrom(_, _, _)
SplitFrom(s, i, cur) ==
  IF i > Len(s)
    THEN IF cur = <<>> THEN <<>> ELSE <<cur>>
    ELSE IF s[i] = " "
      THEN (IF cur = <<>> THEN <<>> ELSE <<cur>>) \o SplitFrom(s, i + 1, <<>>)
      ELSE SplitFrom(s, i + 1, Append(cur, s[i]))

Split(s) == SplitFrom(s, 1, <<>>)

\* " ".join(tokens)
RECURSIVE Join(_)
Join(toks) ==
  IF toks = <<>> THEN <<>>
  ELSE IF Len(toks) = 1 THEN toks[1]
  ELSE toks[1] \o <<" ">> \o Join(Tail(toks))

\* re.sub(r"\s+", " ", name).strip() on a string of letters and spaces
CleanSpaces(s) == Join(Split(s))

\* a missing value (pd.isna)
NaN == <<"<NaN>">>

\* a value that is neither a string nor missing (a number)
Number == <<"<int>">>

\* "'int' object has no attribute 'lower'"
AttributeError == <<"<AttributeError>">>

normalize_name_no_unidecode(name) ==
  IF name = NaN THEN <<>>
  ELSE CleanSpaces(SubSymbols(LowerStr(name)))

normalize_name(name) ==
  IF name = NaN THEN <<>>
  ELSE IF name = Number THEN AttributeError
  ELSE CleanSpaces(SubSymbols(UnidecodeStr(LowerStr(name))))

(***************************************************************************)
(* rapidfuzz: fuzz.token_sort_ratio and process.extractOne, as called on   *)
(* lines 72-76.  Scores are kept in hundredths of a point (Scale), rounded *)
(* down, so that a comparison with a whole threshold is exact.             *)
(***************************************************************************)
Scale == 100
Threshold == 80

RECURSIVE TokLess(_, _)
TokLess(a, b) ==
  IF a = <<>> THEN b # <<>>
  ELSE IF b = <<>> THEN FALSE
  ELSE IF Head(a) = Head(b) THEN TokLess(Tail(a), Tail(b))
  ELSE Ord(Head(a)) < Ord(Head(b))

RECURSIVE InsertTok(_, _)
InsertTok(t, sorted) ==
  IF sorted = <<>> THEN <<t>>
  ELSE IF TokLess(t, Head(sorted)) THEN <<t>> \o sorted
  ELSE <<Head(sorted)>> \o InsertTok(t, Tail(sorted))

RECURSIVE SortToks(_)
SortToks(toks) ==
  IF toks = <<>> THEN <<>> ELSE InsertTok(Head(toks), SortToks(Tail(toks)))

\* " ".join(sorted(s.split()))
TokenSort(s) == Join(SortToks(Split(s)))

RECURSIVE LcsRow(_, _, _, _)
LcsRow(prev, c, b, cur) ==
  IF Len(cur) = Len(b) + 1 THEN cur
  ELSE LET j == Len(cur)
           v == IF c = b[j] THEN prev[j] + 1 ELSE Max(prev[j + 1], cur[j])
       IN LcsRow(prev, c, b, Append(cur, v))

RECURSIVE LcsRows(_, _, _, _)
LcsRows(a, b, i, prev) ==
  IF i > Len(a) THEN prev[Len(b) + 1]
  ELSE LcsRows(a, b, i + 1, LcsRow(prev, a[i], b, <<0>>))

\* length of a longest common subsequence
LcsLen(a, b) == LcsRows(a, b, 1, [k \in 1..(Len(b) + 1) |-> 0])

\* fuzz.ratio: the normalized Indel similarity, 100 * 2*lcs / (len1 + len2)
ratio(a, b) ==
  IF Len(a) + Len(b) = 0 THEN 100 * Scale
  ELSE (200 * Scale * LcsLen(a, b)) \div (Len(a) + Len(b))

token_sort_ratio(a, b) == ratio(TokenSort(a), TokenSort(b))

\* process.extractOne(query, choices, scorer=fuzz.token_sort_ratio): the first
\* choice with the highest score, as [score, idx] (idx counts from 1 here);
\* None for an empty list of choices
None == [score |-> -1, idx |-> 0]

RECURSIVE Scan(_, _, _, _)
Scan(query, choices, j, best) ==
  IF j > Len(choices) THEN best
  ELSE LET score == token_sort_ratio(query, choices[j])
       IN IF score > best.score
            THEN Scan(query, choices, j + 1, [score |-> score, idx |-> j])
            ELSE Scan(query, choices, j + 1, best)

extractOne(query, choices) == Scan(query, choices, 1, None)

\* line 78: if score >= 80
ScorePassesStrict(score) == score > Threshold * Scale

ScorePasses(score) == score >= Threshold * Scale

(***************************************************************************)
(* merge_players.py                                                        *)
(***************************************************************************)
\* the raw names the frames are drawn from
JoseNunez    == <<"J","o","s","e"," ","N","u","n","e","z">>
JoseNunezAcc == <<"J","o","s","e_acute"," ","N","u_acute","n_tilde","e","z">>
NunezJoao    == <<"N","u","n","e","z"," ","J","o","a","o">>
Al           == <<"A","l">>

Names == {JoseNunez, JoseNunezAcc, NunezJoao, Al}

\* sofifa.merge(tm, on="std_name", how="inner"): for every left row in order,
\* one output row per right row with the same key, in right order
RowsFor(i, ls, rs) ==
  LET RECURSIVE From(_)
      From(j) ==
        IF j > Len(rs) THEN <<>>
        ELSE (IF rs[j] = ls[i] THEN <<[l |-> i, r |-> j]>> ELSE <<>>) \o From(j + 1)
  IN From(1)

InnerMerge(ls, rs) ==
  LET RECURSIVE From(_)
      From(i) == IF i > Len(ls) THEN <<>> ELSE RowsFor(i, ls, rs) \o From(i + 1)
  IN From(1)

\* sofifa[~sofifa["std_name"].isin(matched_sofifa_names)]
Unmatched(ls, matched) ==
  LET RECURSIVE From(_)
      From(i) ==
        IF i > Len(ls) THEN <<>>
        ELSE (IF ls[i] \in matched THEN <<>> ELSE <<i>>) \o From(i + 1)
  IN From(1)

RInit ==
  /\ sofifa_exists \in BOOLEAN
  /\ tm_exists \in BOOLEAN
  /\ sofifa \in IF sofifa_exists THEN SeqsUpTo(Names, MaxLeft) ELSE {<<>>}
  /\ tm \in IF tm_exists THEN SeqsUpTo(Names, MaxRight) ELSE {<<>>}
  /\ merged_written = FALSE
  /\ rpc = "start"
  /\ sofifa_std = <<>>
  /\ tm_std = <<>>
  /\ exact_matches = <<>>
  /\ unmatched_sofifa = <<>>
  /\ tm_names = <<>>
  /\ fuzzy_results = <<>>
  /\ unresolved = <<>>
  /\ row = 1

\* lines 32-41: the input checks, then the two frames are read
ReadInputs ==
  /\ rpc = "start"
  /\ rpc' = IF ~sofifa_exists \/ ~tm_exists THEN "missing" ELSE "load"
  /\ UNCHANGED <<sofifa, tm, sofifa_std, tm_std, exact_matches,
                 unmatched_sofifa, tm_names, fuzzy_results, unresolved, row,
                 sofifa_exists, tm_exists, merged_written>>
  /\ UNCHANGED <<which, listing, base_ok, cvars, pvars, dvars, tvars, fvars, lvars>>

\* lines 46-63: std_name columns, exact merge, unmatched rows, candidate list
ExactMatch ==
  /\ rpc = "load"
  /\ sofifa_std' = [i \in 1..Len(sofifa) |-> normalize_name(sofifa[i])]
  /\ tm_std' = [j \in 1..Len(tm) |-> normalize_name(tm[j])]
  /\ exact_matches' = InnerMerge(sofifa_std', tm_std')
  /\ LET matched_sofifa_names ==
           {sofifa_std'[exact_matches'[k].l] : k \in 1..Len(exact_matches')}
     IN unmatched_sofifa' = Unmatched(sofifa_std', matched_sofifa_names)
  /\ tm_names' = tm_std'
  /\ rpc' = "fuzzy"
  /\ UNCHANGED <<sofifa, tm, fuzzy_results, unresolved, row,
                 sofifa_exists, tm_exists, merged_written>>
  /\ UNCHANGED <<which, listing, base_ok, cvars, pvars, dvars, tvars, fvars, lvars>>

\* lines 68-83: one iteration of the fuzzy loop
FuzzyStep ==
  /\ rpc = "fuzzy"
  /\ row <= Len(unmatched_sofifa)
  /\ LET l == unmatched_sofifa[row]
         res == extractOne(sofifa_std[l], tm_names)
     IN \/ /\ res = None               \* unpacking None raises TypeError
           /\ rpc' = "error"
           /\ UNCHANGED <<fuzzy_results, unresolved, row>>
        \/ /\ res # None
           /\ ScorePasses(res.score)
           /\ fuzzy_results' =
                Append(fuzzy_results, [l |-> l, r |-> res.idx, score |-> res.score])
           /\ row' = row + 1
           /\ UNCHANGED <<rpc, unresolved>>
        \/ /\ res # None
           /\ ~ScorePasses(res.score)
           /\ unresolved' = Append(unresolved, l)
           /\ row' = row + 1
           /\ UNCHANGED <<rpc, fuzzy_results>>
  /\ UNCHANGED <<sofifa, tm, sofifa_std, tm_std, exact_matches,
                 unmatched_sofifa, tm_names, sofifa_exists, tm_exists,
                 merged_written>>
  /\ UNCHANGED <<which, listing, base_ok, cvars, pvars, dvars, tvars, fvars, lvars>>

\* lines 85-104: the loop is over; the frames are built and written
Finish ==
  /\ rpc = "fuzzy"
  /\ row > Len(unmatched_sofifa)
  /\ merged_written' = TRUE
  /\ rpc' = "done"
  /\ UNCHANGED <<sofifa, tm, sofifa_std, tm_std, exact_matches,
                 unmatched_sofifa, tm_names, fuzzy_results, unresolved, row,
                 sofifa_exists, tm_exists>>
  /\ UNCHANGED <<which, listing, base_ok, cvars, pvars, dvars, tvars, fvars, lvars>>


(***************************************************************************)
(* The listing source                                                      *)
(***************************************************************************)
Urls == {"u1", "u2", "u3"}

\* what one page of the listing can show: the hrefs of its links, in
\* document order
PageChoices == {<<"u1", "u2">>, <<"u2", "u3">>, <<"u3", "u3">>}

\* limit: int | None = None
NoLimit == -1

Limits == {NoLimit} \cup (0..MaxLimit)

\* checkpoints a run can find
NoFile == [exists |-> FALSE, rows |-> <<>>]
File(rows) == [exists |-> TRUE, rows |-> rows]

Range(s) == {s[i] : i \in 1..Len(s)}

Take(s, n) == SubSeq(s, 1, Min(n, Len(s)))

\* the elements of s that are not in seen, each once, in order
RECURSIVE Unseen(_, _)
Unseen(s, seen) ==
  IF s = <<>> THEN <<>>
  ELSE IF Head(s) \in seen THEN Unseen(Tail(s), seen)
  ELSE <<Head(s)>> \o Unseen(Tail(s), seen \cup {Head(s)})

\* the script run by page.evaluate: the hrefs of a document, repeats dropped
\* (lines 113-124; scrape_player_urls.py lines 85-94)
evaluate_urls(doc) == Unseen(doc, {})

(***************************************************************************)
(* soFIFAClubs_url_scraper.py: ClubURLScraper and main                     *)
(***************************************************************************)
page_size == 60
max_offset == 660

\* the rows the site shows at an offset
PageAt(offset) ==
  LET k == (offset \div page_size) + 1
  IN IF k <= Len(listing) THEN listing[k] ELSE <<>>

\* "if self.limit:"
LimitSetIsNotNone(limit) == limit # NoLimit

LimitSet(limit) == limit # NoLimit /\ limit # 0

ClubStartFiles == {NoFile, File(<<"u1", "u2">>)}

CInit ==
  /\ cpc = "start"
  /\ crun = 1
  /\ cfresh = FALSE
  /\ club_csv \in ClubStartFiles
  /\ all_club_urls = <<>>
  /\ coffset = 0
  /\ climit \in Limits
  /\ cdoc = <<>>
  /\ cgotos = 0
  /\ cfail = "none"
  /\ cexhausted = FALSE
  /\ cfound = [exists |-> club_csv.exists, rows |-> club_csv.rows, clean |-> TRUE]

CIdle ==
  /\ cpc = "idle"
  /\ crun = 0
  /\ cfresh = FALSE
  /\ club_csv = NoFile
  /\ all_club_urls = <<>>
  /\ coffset = 0
  /\ climit = NoLimit
  /\ cdoc = <<>>
  /\ cgotos = 0
  /\ cfail = "none"
  /\ cexhausted = FALSE
  /\ cfound = [exists |-> FALSE, rows |-> <<>>, clean |-> TRUE]

SeedNothing(file) == <<>>

\* __init__ (lines 8-45): create the file, or seed the list from its rows
SeedFromCheckpoint(file) == IF file.exists THEN file.rows ELSE <<>>

\* main (lines 189-201) up to the call of scrape_all_club_urls
ClubMain ==
  /\ which \in {"club", "pipeline"}
  /\ cpc = "start"
  /\ \E fresh \in BOOLEAN :
       /\ cfresh' = fresh
       /\ all_club_urls' = IF fresh THEN <<>> ELSE SeedFromCheckpoint(club_csv)
       /\ club_csv' = IF fresh THEN File(<<>>) ELSE File(club_csv.rows)
  /\ coffset' = 0
  /\ cdoc' = <<>>
  /\ cgotos' = 0
  /\ cfail' = "none"
  /\ cexhausted' = FALSE
  /\ cpc' = "loop"
  /\ UNCHANGED <<crun, climit, cfound>>
  /\ UNCHANGED <<rvars, which, listing, base_ok, pvars, dvars, tvars, fvars, lvars>>

NewUrlsUnchecked(page_urls, all, limit) == page_urls

\* lines 131-145: the new URLs of a page, cut to what the limit leaves
NewUrls(page_urls, all, limit) ==
  LET fresh_urls == Unseen(page_urls, Range(all))
  IN IF LimitSet(limit)
       THEN Take(fresh_urls, Max(0, limit - Len(all)))
       ELSE fresh_urls

\* append_urls_to_csv (lines 168-175)
append_urls_to_csv_lost(file, urls) == file

append_urls_to_csv(file, urls) ==
  IF urls = <<>> THEN file ELSE File(file.rows \o urls)

\* what page.goto can do for a listing URL: "ok" (first attempt passes),
\* "retry_ok" (first raises, second passes), "challenge" (the attempt passes
\* but the document is an interstitial without the table), "fail_keep" (both
\* raise, the page keeps the document it had), "fail_error" (both raise, the
\* page holds an error document), "fail_loaded" (both raise on the timeout of
\* the wait for domcontentloaded, while the navigation has committed and the
\* page holds the rows of the requested document).  A URL that cannot be
\* navigated to raises at once and leaves the document alone.
ClubOutcomes ==
  IF base_ok
    THEN {"ok", "retry_ok", "challenge", "fail_keep", "fail_error", "fail_loaded"}
  ELSE {"fail_keep"}

\* one iteration of the while loop (lines 86-159)
ClubPage ==
  /\ which \in {"club", "pipeline"}
  /\ cpc = "loop"
  /\ coffset <= max_offset
  /\ \E outcome \in ClubOutcomes :
       \* lines 95-105: two attempts; after two failures the loop goes on
       \* to the extraction with whatever document the page holds
       /\ cgotos' = IF outcome \in {"ok", "challenge"} THEN 1 ELSE 2
       /\ cfail' = CASE outcome = "ok" -> cfail
                     [] outcome = "retry_ok" ->
                          IF cfail = "none" THEN "retried" ELSE cfail
                     [] OTHER -> "skipped"
       /\ cexhausted' = (outcome \in {"fail_keep", "fail_error", "fail_loaded"})
       /\ cdoc' = CASE outcome \in {"ok", "retry_ok", "fail_loaded"} -> PageAt(coffset)
                    [] outcome = "fail_keep" -> cdoc
                    [] OTHER -> <<>>
  /\ IF LimitSet(climit) /\ Max(0, climit - Len(all_club_urls)) = 0
       THEN \* lines 134-138: break before append
            /\ cpc' = "done"
            /\ UNCHANGED <<all_club_urls, club_csv, coffset>>
       ELSE LET new_urls == NewUrls(evaluate_urls(cdoc'), all_club_urls, climit)
            IN /\ all_club_urls' = all_club_urls \o new_urls
               /\ club_csv' = append_urls_to_csv(club_csv, new_urls)
               /\ IF LimitSet(climit) /\ Len(all_club_urls') >= climit
                    THEN cpc' = "done" /\ coffset' = coffset
                    ELSE cpc' = "loop" /\ coffset' = coffset + page_size
  /\ UNCHANGED <<crun, cfresh, climit, cfound>>
  /\ UNCHANGED <<rvars, which, listing, base_ok, pvars, dvars, tvars, fvars, lvars>>

\* line 86 fails: the loop is over (lines 161-164)
ClubExit ==
  /\ which \in {"club", "pipeline"}
  /\ cpc = "loop"
  /\ coffset > max_offset
  /\ cpc' = "done"
  /\ UNCHANGED <<crun, cfresh, club_csv, all_club_urls, coffset, climit, cdoc,
                 cgotos, cfail, cexhausted, cfound>>
  /\ UNCHANGED <<rvars, which, listing, base_ok, pvars, dvars, tvars, fvars, lvars>>

\* the program is started again on the same files
ClubRerun ==
  /\ which = "club"
  /\ cpc = "done"
  /\ crun < MaxRuns
  /\ crun' = crun + 1
  /\ cfound' = [exists |-> club_csv.exists, rows |-> club_csv.rows,
                 clean |-> cfail # "skipped"]
  /\ cpc' = "start"
  /\ UNCHANGED <<cfresh, club_csv, all_club_urls, coffset, climit, cdoc,
                 cgotos, cfail, cexhausted>>
  /\ UNCHANGED <<rvars, which, listing, base_ok, pvars, dvars, tvars, fvars, lvars>>

(***************************************************************************)
(* scrape_player_urls.py: PlayerURLScraper and main                        *)
(***************************************************************************)
max_retries == 3

\* the "Next" button of the page at an offset
HasNextAt(offset) == (offset \div page_size) + 1 < Len(listing)

PlayerStartFiles == {NoFile, File(<<"u1">>)}

PInit ==
  /\ ppc = "start"
  /\ prun = 1
  /\ player_csv \in PlayerStartFiles
  /\ all_player_urls = <<>>
  /\ poffset = 0
  /\ plimit \in Limits
  /\ has_next = TRUE
  /\ retries = 0
  /\ pfailed = FALSE
  /\ pgotos = 0
  /\ pexhausted = FALSE

PIdle ==
  /\ ppc = "idle"
  /\ prun = 0
  /\ player_csv = NoFile
  /\ all_player_urls = <<>>
  /\ poffset = 0
  /\ plimit = NoLimit
  /\ has_next = TRUE
  /\ retries = 0
  /\ pfailed = FALSE
  /\ pgotos = 0
  /\ pexhausted = FALSE

\* save_urls_to_csv (lines 145-182): the file is rewritten with the list,
\* repeats dropped
save_urls_to_csv(all) == File(Unseen(all, {}))

\* main (lines 192-211) and lines 13-20, 54-55
PlayerMain ==
  /\ which = "player"
  /\ ppc = "start"
  /\ all_player_urls' = <<>>
  /\ poffset' = 0
  /\ has_next' = TRUE
  /\ retries' = 0
  /\ pfailed' = FALSE
  /\ pgotos' = 0
  /\ pexhausted' = FALSE
  /\ ppc' = "page"
  /\ UNCHANGED <<prun, player_csv, plimit>>
  /\ UNCHANGED <<rvars, which, listing, base_ok, cvars, dvars, tvars, fvars, lvars>>

\* lines 57-62: the outer loop goes round
PlayerPage ==
  /\ which = "player"
  /\ ppc = "page"
  /\ has_next
  /\ retries' = 0
  /\ ppc' = "attempt"
  /\ UNCHANGED <<prun, player_csv, all_player_urls, poffset, plimit, has_next,
                 pfailed, pgotos, pexhausted>>
  /\ UNCHANGED <<rvars, which, listing, base_ok, cvars, dvars, tvars, fvars, lvars>>

\* what one attempt on a listing URL can do: "ok", "challenge" (the document
\* is the Cloudflare interstitial, lines 76-80), "exception" (page.goto or a
\* later call raises, lines 134-139).  A URL that cannot be navigated to
\* raises.
PlayerOutcomes ==
  IF base_ok THEN {"ok", "challenge", "exception"} ELSE {"exception"}

\* lines 64-113 and 134-139: one attempt on the page
PlayerAttempt ==
  /\ which = "player"
  /\ ppc = "attempt"
  /\ retries < max_retries
  /\ pgotos' = Min(pgotos + 1, max_retries + 1)
  /\ \E outcome \in PlayerOutcomes :
       IF outcome = "ok"
         THEN \* lines 104-113: the page's URLs are accepted
              /\ all_player_urls' =
                   all_player_urls
                     \o Unseen(evaluate_urls(PageAt(poffset)), Range(all_player_urls))
              /\ has_next' = HasNextAt(poffset)
              /\ ppc' = "cap"
              /\ UNCHANGED <<retries, pfailed, pexhausted>>
         ELSE /\ retries' = retries + 1
              /\ pfailed' = TRUE
              /\ pexhausted' = (pexhausted \/ retries' >= max_retries)
              /\ has_next' = IF outcome = "exception" /\ retries' >= max_retries
                               THEN FALSE ELSE has_next
              /\ UNCHANGED <<all_player_urls, ppc>>
  /\ UNCHANGED <<prun, player_csv, poffset, plimit>>
  /\ UNCHANGED <<rvars, which, listing, base_ok, cvars, dvars, tvars, fvars, lvars>>

\* line 64 fails with success unset: back to the test of the outer loop
PlayerGiveUp ==
  /\ which = "player"
  /\ ppc = "attempt"
  /\ retries >= max_retries
  /\ ppc' = "page"
  /\ UNCHANGED <<prun, player_csv, all_player_urls, poffset, plimit, has_next,
                 retries, pfailed, pgotos, pexhausted>>
  /\ UNCHANGED <<rvars, which, listing, base_ok, cvars, dvars, tvars, fvars, lvars>>

\* lines 115-132: the cap, the save, the move to the next page
PlayerCapSave ==
  /\ which = "player"
  /\ ppc = "cap"
  /\ IF LimitSetIsNotNone(plimit) /\ Len(all_player_urls) >= plimit
       THEN /\ all_player_urls' = Take(all_player_urls, plimit)
            /\ has_next' = FALSE
            /\ poffset' = poffset
       ELSE /\ all_player_urls' = all_player_urls
            /\ has_next' = has_next
            /\ poffset' = IF has_next THEN poffset + page_size ELSE poffset
  /\ player_csv' = save_urls_to_csv(all_player_urls')
  /\ pgotos' = IF poffset' # poffset THEN 0 ELSE pgotos
  /\ ppc' = "page"
  /\ UNCHANGED <<prun, plimit, retries, pfailed, pexhausted>>
  /\ UNCHANGED <<rvars, which, listing, base_ok, cvars, dvars, tvars, fvars, lvars>>

\* line 57 fails: lines 141-143, then the final save of main (line 214)
PlayerExit ==
  /\ which = "player"
  /\ ppc = "page"
  /\ ~has_next
  /\ player_csv' = save_urls_to_csv(all_player_urls)
  /\ ppc' = "done"
  /\ UNCHANGED <<prun, all_player_urls, poffset, plimit, has_next, retries,
                 pfailed, pgotos, pexhausted>>
  /\ UNCHANGED <<rvars, which, listing, base_ok, cvars, dvars, tvars, fvars, lvars>>

\* the program is started again on the same files
PlayerRerun ==
  /\ which = "player"
  /\ ppc = "done"
  /\ prun < MaxRuns
  /\ prun' = prun + 1
  /\ ppc' = "start"
  /\ UNCHANGED <<player_csv, all_player_urls, poffset, plimit, has_next,
                 retries, pfailed, pgotos, pexhausted>>
  /\ UNCHANGED <<rvars, which, listing, base_ok, cvars, dvars, tvars, fvars, lvars>>

(***************************************************************************)
(* soFIFAClubs_scraper.py: SoFIFAClubScraper and main                      *)
(***************************************************************************)
\* club pages: [id, slug]; id "" stands for a URL without /team/<digits>/
DetailUrls ==
  {[id |-> "1", slug |-> "a"], [id |-> "1", slug |-> "b"],
   [id |-> "2", slug |-> "a"], [id |-> "", slug |-> "x"]}

\* lines 163-166
extract_club_id_from_url(url) == url.id

\* the row scrape_club_data gives for a URL (lines 18, 28-29)
ClubRow(url) == [url |-> url, club_id |-> extract_club_id_from_url(url)]

DetailStartFiles == {NoFile, File(<<ClubRow([id |-> "1", slug |-> "a"])>>)}

DInit ==
  /\ dpc = "start"
  /\ drun = 1
  /\ dfresh = FALSE
  /\ dpipeline = FALSE
  /\ dlimit \in Limits
  /\ urls_file \in {NoFile} \cup {File(r) : r \in SeqsUpTo(DetailUrls, MaxUrls)}
  /\ stats_csv \in DetailStartFiles
  /\ club_urls = <<>>
  /\ existing_urls = {}
  /\ existing_ids = {}
  /\ target = <<>>
  /\ didx = 1
  /\ results = <<>>
  /\ dtried = <<>>
  /\ dprev = <<>>

DIdle ==
  /\ dpc = "idle"
  /\ drun = 0
  /\ dfresh = FALSE
  /\ dpipeline = FALSE
  /\ dlimit = NoLimit
  /\ urls_file = NoFile
  /\ stats_csv = NoFile
  /\ club_urls = <<>>
  /\ existing_urls = {}
  /\ existing_ids = {}
  /\ target = <<>>
  /\ didx = 1
  /\ results = <<>>
  /\ dtried = <<>>
  /\ dprev = <<>>

\* _load_existing_progress (lines 168-181)
LoadedUrls(file) == {file.rows[i].url : i \in 1..Len(file.rows)}
LoadedIds(file) ==
  {file.rows[i].club_id : i \in 1..Len(file.rows)} \ {""}

\* the listed URLs whose URL is not in the checkpoint
FilterScrapedByUrl(urls, eurls, eids) == SelectSeq(urls, LAMBDA u : u \notin eurls)

\* lines 224-232: the listed URLs with no row yet, by URL or by club id
RECURSIVE FilterScraped(_, _, _)
FilterScraped(urls, eurls, eids) ==
  IF urls = <<>> THEN <<>>
  ELSE LET u == Head(urls)
           cid == extract_club_id_from_url(u)
       IN (IF u \in eurls \/ (cid # "" /\ cid \in eids) THEN <<>> ELSE <<u>>)
            \o FilterScraped(Tail(urls), eurls, eids)

\* os.path on paths kept as sequences of components
dirname(p) == SubSeq(p, 1, Len(p) - 1)
basename(p) == IF p = <<>> THEN "" ELSE p[Len(p)]

\* os.path.abspath(__file__) of the two scrapers
url_scraper_py ==
  <<"repo", "Scrapping", "Scripts", "soFIFA", "Clubs", "soFIFAClubs_url_scraper.py">>
scraper_py ==
  <<"repo", "Scrapping", "Scripts", "soFIFA", "Clubs", "soFIFAClubs_scraper.py">>

\* soFIFAClubs_url_scraper.py lines 19-28: four levels up is Scrapping
output_file_path ==
  dirname(dirname(dirname(dirname(url_scraper_py))))
    \o <<"Data", "soFIFA", "Clubs", "club_urls.csv">>

\* lines 139-146: the directory named Scrapping above the script
RECURSIVE FindScrapping(_)
FindScrapping(dir) ==
  IF basename(dir) = "Scrapping" \/ dir = <<>> THEN dir
  ELSE FindScrapping(dirname(dir))

\* lines 148-152: Data/soFIFA/Clubs under the parent of Scrapping
urls_file_path ==
  dirname(FindScrapping(dirname(scraper_py)))
    \o <<"Data", "soFIFA", "Clubs", "club_urls.csv">>

\* the href of a club as load_urls reads it: https://sofifa.com/team/<id>/<slug>/
TeamUrl(href) ==
  CASE href = "u1" -> [id |-> "1", slug |-> "a"]
    [] href = "u2" -> [id |-> "2", slug |-> "a"]
    [] OTHER -> [id |-> "3", slug |-> "a"]

\* the file at a path when load_urls opens it: the file the URL scraper of
\* this process wrote, if the path is its output_file, else the file that is
\* there
FileAt(path) ==
  IF which = "pipeline" /\ path = output_file_path
    THEN [exists |-> club_csv.exists,
          rows |-> [i \in 1..Len(club_csv.rows) |-> TeamUrl(club_csv.rows[i])]]
    ELSE urls_file

load_urls_never_raises(file) == FALSE

\* load_urls, lines 184-187: the URL list is absent
load_urls_raises(file) == ~file.exists

\* the fresh argument __init__ is called with: args.fresh in main (line 279),
\* the default in step 2 of soFIFAClubs.main (soFIFAClubs.py line 38)
InitFresh(fresh, pipeline) == IF pipeline THEN FALSE ELSE fresh

\* main (lines 277-288), or step 2 of soFIFAClubs.main (soFIFAClubs.py lines
\* 36-43), with __init__ (136-161), load_urls (183-191) and the start of
\* scrape_all_clubs (224-238)
DetailMain ==
  /\ which \in {"detail", "pipeline"}
  /\ which = "pipeline" => cpc = "done"
  /\ dpc = "start"
  /\ urls_file' = FileAt(urls_file_path)
  /\ \E fresh \in BOOLEAN,
        pipeline \in IF which = "pipeline" THEN {TRUE} ELSE BOOLEAN :
       /\ dfresh' = fresh
       /\ dpipeline' = pipeline
       /\ existing_urls' = IF ~InitFresh(fresh, pipeline) /\ stats_csv.exists
                             THEN LoadedUrls(stats_csv) ELSE {}
       /\ existing_ids' = IF ~InitFresh(fresh, pipeline) /\ stats_csv.exists
                            THEN LoadedIds(stats_csv) ELSE {}
       /\ IF load_urls_raises(urls_file')
            THEN \* FileNotFoundError goes out of main
                 /\ dpc' = "error"
                 /\ UNCHANGED <<stats_csv, club_urls, target>>
            ELSE /\ club_urls' = urls_file'.rows
                 /\ stats_csv' = IF fresh /\ stats_csv.exists THEN NoFile ELSE stats_csv
                 /\ LET filtered == FilterScraped(club_urls', existing_urls', existing_ids')
                    IN target' = IF LimitSet(dlimit) THEN Take(filtered, dlimit)
                                 ELSE filtered
                 /\ dpc' = "loop"
  /\ didx' = 1
  /\ results' = <<>>
  /\ dtried' = <<>>
  /\ dprev' = stats_csv.rows
  /\ UNCHANGED <<drun, dlimit>>
  /\ UNCHANGED <<rvars, which, listing, base_ok, cvars, pvars, tvars,
               fvars, lvars>>

\* save_to_csv (lines 255-267)
save_to_csv(file, data) == File(file.rows \o <<data>>)

\* lines 239-249: one URL of the target list
DetailScrape ==
  /\ which \in {"detail", "pipeline"}
  /\ dpc = "loop"
  /\ didx <= Len(target)
  /\ dtried' = Append(dtried, target[didx])
  /\ \E ok \in BOOLEAN :
       IF ok
         THEN /\ results' = Append(results, ClubRow(target[didx]))
              /\ stats_csv' = save_to_csv(stats_csv, ClubRow(target[didx]))
         ELSE UNCHANGED <<results, stats_csv>>
  /\ didx' = didx + 1
  /\ UNCHANGED <<dpc, drun, dfresh, dpipeline, dlimit, urls_file, club_urls,
                 existing_urls, existing_ids, target, dprev>>
  /\ UNCHANGED <<rvars, which, listing, base_ok, cvars, pvars, tvars,
               fvars, lvars>>

\* lines 250-253
DetailExit ==
  /\ which \in {"detail", "pipeline"}
  /\ dpc = "loop"
  /\ didx > Len(target)
  /\ dpc' = "done"
  /\ UNCHANGED <<drun, dfresh, dpipeline, dlimit, urls_file, stats_csv,
                 club_urls, existing_urls, existing_ids, target, didx, results,
                 dtried, dprev>>
  /\ UNCHANGED <<rvars, which, listing, base_ok, cvars, pvars, tvars,
               fvars, lvars>>

\* the program is started again on the same files
DetailRerun ==
  /\ which = "detail"
  /\ dpc = "done"
  /\ drun < MaxRuns
  /\ drun' = drun + 1
  /\ dpc' = "start"
  /\ UNCHANGED <<dfresh, dpipeline, dlimit, urls_file, stats_csv, club_urls,
                 existing_urls, existing_ids, target, didx, results, dtried,
                 dprev>>
  /\ UNCHANGED <<rvars, which, listing, base_ok, cvars, pvars, tvars,
               fvars, lvars>>

(***************************************************************************)
(* transfermarkt_players.py: main                                          *)
(***************************************************************************)
\* line 181
needed == {"league_name", "club", "club_url", "club_id"}

\* the columns a clubs CSV can have
ClubColumns == needed \cup {"country"}

TInit ==
  /\ tpc = "start"
  /\ clubs_csv \in {[exists |-> FALSE, columns |-> {}]}
                     \cup {[exists |-> TRUE, columns |-> c] : c \in SUBSET ClubColumns}
  /\ players_written = FALSE

TIdle ==
  /\ tpc = "idle"
  /\ clubs_csv = [exists |-> FALSE, columns |-> {}]
  /\ players_written = FALSE

\* lines 172-189: the input checks
TmPlayersMain ==
  /\ which = "tmplayers"
  /\ tpc = "start"
  /\ LET missing == needed \ clubs_csv.columns
     IN tpc' = IF ~clubs_csv.exists THEN "missing_file"
               ELSE IF missing # {} THEN "missing_columns"
               ELSE "scrape"
  /\ UNCHANGED <<clubs_csv, players_written>>
  /\ UNCHANGED <<rvars, which, listing, base_ok, cvars, pvars, dvars,
               fvars, lvars>>

\* lines 191-237: the clubs are scraped (an error on a club is printed and
\* the loop goes on), then the players are written
TmPlayersSave ==
  /\ which = "tmplayers"
  /\ tpc = "scrape"
  /\ players_written' = TRUE
  /\ tpc' = "done"
  /\ UNCHANGED clubs_csv
  /\ UNCHANGED <<rvars, which, listing, base_ok, cvars, pvars, dvars,
               fvars, lvars>>

(***************************************************************************)
(* Specifications                                                          *)
(***************************************************************************)
RIdle ==
  /\ sofifa = <<>>
  /\ tm = <<>>
  /\ rpc = "idle"
  /\ sofifa_std = <<>>
  /\ tm_std = <<>>
  /\ exact_matches = <<>>
  /\ unmatched_sofifa = <<>>
  /\ tm_names = <<>>
  /\ fuzzy_results = <<>>
  /\ unresolved = <<>>
  /\ row = 1
  /\ sofifa_exists = FALSE
  /\ tm_exists = FALSE
  /\ merged_written = FALSE

FIdle ==
  /\ fpc = "idle"
  /\ fn = "none"
  /\ farg = <<>>
  /\ fres = <<>>

LIdle ==
  /\ lpc = "idle"
  /\ unique_leagues = <<>>
  /\ lidx = 1
  /\ candidates = <<>>
  /\ cidx = 1
  /\ attempt = 0
  /\ league_collected = <<>>
  /\ tm_results = <<>>
  /\ requested = <<>>

vars == <<rvars, which, listing, base_ok, cvars, pvars, dvars, tvars, fvars,
          lvars>>

\* the resolver
Init ==
  /\ which = "resolver"
  /\ listing = <<>>
  /\ base_ok = TRUE
  /\ RInit
  /\ CIdle
  /\ PIdle
  /\ DIdle
  /\ TIdle
  /\ FIdle
  /\ LIdle

Next == ReadInputs \/ ExactMatch \/ FuzzyStep \/ Finish

Spec == Init /\ [][Next]_vars

\* one of the crawlers, run up to MaxRuns times on the same files and source
InitCrawl ==
  /\ which \in {"club", "player", "detail"}
  /\ RIdle
  /\ IF which = "club" THEN CInit ELSE CIdle
  /\ IF which = "player" THEN PInit ELSE PIdle
  /\ IF which = "detail" THEN DInit ELSE DIdle
  /\ TIdle
  /\ FIdle
  /\ LIdle
  /\ IF which = "detail"
       THEN listing = <<>> /\ base_ok = TRUE
       ELSE listing \in SeqsUpTo(PageChoices, MaxPages) /\ base_ok \in BOOLEAN

NextCrawl ==
  \/ ClubMain \/ ClubPage \/ ClubExit \/ ClubRerun
  \/ PlayerMain \/ PlayerPage \/ PlayerAttempt \/ PlayerGiveUp
  \/ PlayerCapSave \/ PlayerExit \/ PlayerRerun
  \/ DetailMain \/ DetailScrape \/ DetailExit \/ DetailRerun

SpecCrawl == InitCrawl /\ [][NextCrawl]_vars

\* the listing crawlers as running programs: a program that can take a step
\* takes one
InitListing == InitCrawl /\ which \in {"club", "player"}

NextListing ==
  \/ ClubMain \/ ClubPage \/ ClubExit \/ ClubRerun
  \/ PlayerMain \/ PlayerPage \/ PlayerAttempt \/ PlayerGiveUp
  \/ PlayerCapSave \/ PlayerExit \/ PlayerRerun

SpecListing == InitListing /\ [][NextListing]_vars /\ WF_vars(NextListing)

\* the programs that check their inputs before they start
InitInputs ==
  /\ which \in {"resolver", "detail", "tmplayers"}
  /\ listing = <<>>
  /\ base_ok = TRUE
  /\ IF which = "resolver" THEN RInit ELSE RIdle
  /\ CIdle
  /\ PIdle
  /\ IF which = "detail" THEN DInit ELSE DIdle
  /\ IF which = "tmplayers" THEN TInit ELSE TIdle
  /\ FIdle
  /\ LIdle

NextInputs ==
  \/ ReadInputs \/ ExactMatch \/ FuzzyStep \/ Finish
  \/ DetailMain \/ DetailScrape \/ DetailExit \/ DetailRerun
  \/ TmPlayersMain \/ TmPlayersSave

SpecInputs == InitInputs /\ [][NextInputs]_vars

(***************************************************************************)
(* Properties of the resolver                                              *)
(***************************************************************************)
ExactOf(l) == {k \in 1..Len(exact_matches) : exact_matches[k].l = l}
FuzzyOf(l) == {k \in 1..Len(fuzzy_results) : fuzzy_results[k].l = l}
UnresolvedOf(l) == {k \in 1..Len(unresolved) : unresolved[k] = l}

\* C1: when the run is over the three outputs partition left: their sizes add
\* up to |left| and every left record is in exactly one of them, once.
C1_Partition ==
  rpc = "done" =>
    /\ Len(exact_matches) + Len(fuzzy_results) + Len(unresolved) = Len(sofifa)
    /\ \A l \in 1..Len(sofifa) :
         Cardinality(ExactOf(l)) + Cardinality(FuzzyOf(l))
           + Cardinality(UnresolvedOf(l)) = 1

\* C2: no right record is the partner of more than one FuzzyMatch.
C2_FuzzyConsumesRight ==
  \A i, k \in 1..Len(fuzzy_results) :
    i # k => fuzzy_results[i].r # fuzzy_results[k].r

\* C3: no right record is both in an ExactMatch and in a FuzzyMatch.
C3_ExactRemovedFromPool ==
  \A k \in 1..Len(exact_matches) : \A i \in 1..Len(fuzzy_results) :
    exact_matches[k].r # fuzzy_results[i].r

\* C4: every left and every right record is in at most one ExactMatch, so m
\* left and n right records with one key give at most min(m, n) ExactMatches.
C4_ExactPairsOnce ==
  /\ \A i, k \in 1..Len(exact_matches) :
       i # k => /\ exact_matches[i].l # exact_matches[k].l
                /\ exact_matches[i].r # exact_matches[k].r
  /\ rpc # "load" =>
       \A key \in {sofifa_std[l] : l \in 1..Len(sofifa_std)} :
         LET m == Cardinality({l \in 1..Len(sofifa_std) : sofifa_std[l] = key})
             n == Cardinality({r \in 1..Len(tm_std) : tm_std[r] = key})
             e == Cardinality({k \in 1..Len(exact_matches) :
                                 sofifa_std[exact_matches[k].l] = key})
         IN e <= Min(m, n)

\* C5: the resolver never ends in an error; with an empty right collection
\* the run completes with every left record Unresolved.
C5_NoErrorOutcome ==
  /\ rpc # "error"
  /\ (rpc = "done" /\ tm = <<>>) =>
       /\ unresolved = [l \in 1..Len(sofifa) |-> l]
       /\ exact_matches = <<>>
       /\ fuzzy_results = <<>>

\* one left and one right record, the raw names differing only by diacritics
DiacriticsOnlyPair ==
  /\ Len(sofifa) = 1
  /\ Len(tm) = 1
  /\ sofifa[1] # tm[1]
  /\ {sofifa[1], tm[1]} = {JoseNunez, JoseNunezAcc}

\* C6 as stated: such a pair gives no ExactMatch and exactly one FuzzyMatch,
\* whose score is at least 80.
C6_DiacriticsPairIsFuzzy ==
  (rpc = "done" /\ DiacriticsOnlyPair) =>
    /\ exact_matches = <<>>
    /\ Len(fuzzy_results) = 1
    /\ fuzzy_results[1].score >= 80 * Scale

\* C6 amended: such a pair has equal normalized names, so it gives exactly one
\* ExactMatch and neither a FuzzyMatch nor an Unresolved record.
C6_DiacriticsPairIsExact ==
  (rpc = "done" /\ DiacriticsOnlyPair) =>
    /\ exact_matches = <<[l |-> 1, r |-> 1]>>
    /\ fuzzy_results = <<>>
    /\ unresolved = <<>>

C6_Witness ==
  /\ rpc = "done"
  /\ sofifa = <<JoseNunez>>
  /\ tm = <<JoseNunezAcc>>
  /\ Len(exact_matches) = 1

\* C7: every FuzzyMatch has a score of at least 80, and an Unresolved left
\* record had no candidate scoring 80 or more: a best score of exactly 80 is
\* matched, any lower best score is not.
C7_ThresholdBoundary ==
  /\ \A k \in 1..Len(fuzzy_results) : fuzzy_results[k].score >= 80 * Scale
  /\ \A k \in 1..Len(unresolved) : \A j \in 1..Len(tm_std) :
       token_sort_ratio(sofifa_std[unresolved[k]], tm_std[j]) < 80 * Scale

C7_Witness ==
  /\ rpc = "done"
  /\ \E k \in 1..Len(fuzzy_results) : fuzzy_results[k].score = 80 * Scale
  /\ unresolved # <<>>
  /\ tm # <<>>

(***************************************************************************)
(* Properties of the crawlers                                              *)
(***************************************************************************)
\* the distinct URLs the source offers
Available == Cardinality(UNION {Range(listing[k]) : k \in 1..Len(listing)})

\* C8: a run with cap K >= 0, started without a checkpoint and without fetch
\* failures, ends with exactly min(K, available) collected URLs and exactly
\* that many rows in its file.
C8_CapExact ==
  /\ (cpc = "done" /\ crun = 1 /\ ~cfound.exists /\ cfail = "none" /\ climit >= 0) =>
       /\ Len(all_club_urls) = Min(climit, Available)
       /\ Len(club_csv.rows) = Min(climit, Available)
  /\ (ppc = "done" /\ prun = 1 /\ ~pfailed /\ plimit >= 0) =>
       /\ Len(all_player_urls) = Min(plimit, Available)
       /\ Len(player_csv.rows) = Min(plimit, Available)

\* C9: with a cap K set the collected list never holds more than K URLs.
C9_CapAlways ==
  /\ climit >= 1 => Len(all_club_urls) <= climit
  /\ plimit >= 0 => Len(all_player_urls) <= plimit

\* a non-fresh run of ClubURLScraper after a completed run
ClubResumed == which = "club" /\ crun >= 2 /\ ~cfresh

\* a step of the pagination loop whose page shows only known URLs
ClubKnownPageStep ==
  /\ ClubResumed
  /\ cpc = "loop"
  /\ coffset <= max_offset
  /\ (cpc' # cpc \/ coffset' # coffset)
  /\ Range(cdoc') \subseteq Range(all_club_urls)

\* every listed URL has a row in the detail checkpoint the run started from
AllScrapedBefore ==
  \A i \in 1..Len(urls_file.rows) :
    \E k \in 1..Len(dprev) : dprev[k].url = urls_file.rows[i]

DetailResumed == which = "detail" /\ drun >= 2 /\ ~dfresh

DetailResumeUnchanged ==
  (DetailResumed /\ dpc \in {"loop", "done"} /\ AllScrapedBefore) =>
    /\ stats_csv.rows = dprev
    /\ target = <<>>
    /\ dtried = <<>>

ClubUnsaved == Range(all_club_urls) \ Range(club_csv.rows)
PlayerUnsaved == Range(all_player_urls) \ Range(player_csv.rows)

\* C11: what a crawler has collected is in its checkpoint before it moves on:
\* in every state the only collected items missing from the file are those of
\* the page being processed, and the detail file holds the rows the run
\* started from followed by every row the run has scraped.
C11_SavedBeforeAdvance ==
  /\ which = "club" => ClubUnsaved = {}
  /\ which = "player" =>
       PlayerUnsaved \subseteq
         (IF ppc = "cap" THEN Range(PageAt(poffset)) ELSE {})
  /\ (which = "detail" /\ dpc \in {"loop", "done"}) =>
       stats_csv.rows = (IF dfresh THEN <<>> ELSE dprev) \o results

C11_Witness ==
  /\ which = "club"
  /\ cpc = "loop"
  /\ coffset = 2 * page_size
  /\ Len(all_club_urls) = 3
  /\ cfound.rows = <<>>
  /\ club_csv.rows = all_club_urls

\* the listing as one list
RECURSIVE Flatten(_)
Flatten(pages) ==
  IF pages = <<>> THEN <<>> ELSE Head(pages) \o Flatten(Tail(pages))

\* every URL the listing shows, once, in the order of the pages
AllListed == Unseen(Flatten(listing), {})

\* what ClubURLScraper ends with when it starts without a checkpoint and no
\* fetch fails
ClubFromScratch ==
  IF LimitSet(climit) THEN Take(AllListed, climit) ELSE AllListed

\* what SoFIFAClubScraper sets out to scrape when it starts without a checkpoint
DetailFromScratch ==
  IF LimitSet(dlimit) THEN Take(urls_file.rows, dlimit) ELSE urls_file.rows

\* C12: a fresh run is a run begun with no checkpoint: a fresh listing run
\* without fetch failures ends with the list and the file of such a run, and a
\* fresh detail run sets out to scrape every listed URL (up to the limit) and
\* its file holds the rows of this run only.
C12_FreshDiscards ==
  /\ (which = "club" /\ cfresh /\ cpc = "done" /\ cfail = "none") =>
       /\ all_club_urls = ClubFromScratch
       /\ club_csv.rows = ClubFromScratch
  /\ (which = "detail" /\ dfresh /\ dpc \in {"loop", "done"}) =>
       /\ target = DetailFromScratch
       /\ stats_csv.rows = results

\* C13: within a run no offset of the listing is requested more often than
\* the fixed number of attempts: 2 in ClubURLScraper, 3 in PlayerURLScraper.
C13_BoundedRetries ==
  /\ cgotos <= 2
  /\ pgotos <= max_retries

\* the cap of a listing crawler is reached
ClubCapReached == LimitSet(climit) /\ Len(all_club_urls) >= climit
PlayerCapReached ==
  LimitSetIsNotNone(plimit) /\ Len(all_player_urls) >= plimit

\* C14: a page that used up its retries does not end the run: a run in which
\* that happened is over only when the pagination has ended (the last offset
\* was requested; the last page requested has no Next button) or the cap is
\* reached.
C14_SkipAndContinue ==
  /\ (which = "club" /\ cpc = "done" /\ cfail = "skipped") =>
       coffset > max_offset \/ ClubCapReached
  /\ (which = "player" /\ ppc = "done" /\ pexhausted) =>
       ~HasNextAt(poffset) \/ PlayerCapReached

\* C15: every run of a listing crawler leaves its pagination loop, whatever
\* the fetch outcomes are.
C15_RunTerminates ==
  /\ which = "club" => <>(cpc = "done")
  /\ which = "player" => <>(ppc = "done")

\* a list without repeats
NoRepeat(s) == \A i, j \in 1..Len(s) : i # j => s[i] # s[j]

\* C16: neither the collected list nor the checkpoint of a listing crawler
\* holds a URL twice (the checkpoints a run starts from hold none twice).
C16_NoDuplicateUrls ==
  /\ NoRepeat(all_club_urls)
  /\ NoRepeat(club_csv.rows)
  /\ NoRepeat(all_player_urls)
  /\ NoRepeat(player_csv.rows)

\* the first page showed a URL of the checkpoint again, the second page a
\* URL of the first page, twice
C16_Witness ==
  /\ which = "club"
  /\ cpc = "done"
  /\ cfail = "none"
  /\ listing = <<(<<"u2", "u3">>), (<<"u3", "u3">>)>>
  /\ cfound.rows = <<"u1", "u2">>
  /\ all_club_urls = <<"u1", "u2", "u3">>
  /\ club_csv.rows = <<"u1", "u2", "u3">>

(***************************************************************************)
(* Rows of the checkpoints                                                 *)
(***************************************************************************)
\* C17: club_stats_raw.csv never holds two rows with the same url, nor two
\* rows with the same non-empty club_id.
C17_OneRowPerClub ==
  \A i, j \in 1..Len(stats_csv.rows) :
    i # j =>
      /\ stats_csv.rows[i].url # stats_csv.rows[j].url
      /\ (stats_csv.rows[i].club_id # ""
            => stats_csv.rows[i].club_id # stats_csv.rows[j].club_id)

\* s is a subsequence of t: the rows of s are in t, in the same order
RECURSIVE IsSubseq(_, _)
IsSubseq(s, t) ==
  IF s = <<>> THEN TRUE
  ELSE IF t = <<>> THEN FALSE
  ELSE IF Head(s) = Head(t) THEN IsSubseq(Tail(s), Tail(t))
  ELSE IsSubseq(s, Tail(t))

\* C18: in a run without the fresh flag no step removes or reorders a row of
\* a checkpoint file: the rows before the step are a subsequence of the rows
\* after it (club_urls.csv, club_stats_raw.csv, the player URL file).
C18_AppendOnly ==
  [][/\ (which = "club" /\ ~cfresh') =>
          IsSubseq(club_csv.rows, club_csv'.rows)
     /\ (which = "detail" /\ ~dfresh') =>
          IsSubseq(stats_csv.rows, stats_csv'.rows)
     /\ which = "player" =>
          IsSubseq(player_csv.rows, player_csv'.rows)]_vars

(***************************************************************************)
(* Inputs                                                                  *)
(***************************************************************************)
\* C19: a listing crawl given a base URL that cannot be used stops at start:
\* it requests no page and does not run to its normal end.
C19_BadBaseUrlIsFatal ==
  ~base_ok =>
    /\ cgotos = 0 /\ cpc # "done"
    /\ pgotos = 0 /\ ppc # "done"

\* a required input of the program that is run is absent
DetailInputMissing == which = "detail" /\ ~urls_file.exists
ResolverInputMissing == which = "resolver" /\ (~sofifa_exists \/ ~tm_exists)
TmPlayersInputMissing ==
  which = "tmplayers" /\ (~clubs_csv.exists \/ needed \ clubs_csv.columns # {})

\* C20: a program whose required input is absent stops in its input check:
\* the detail stage requests no page and leaves club_stats_raw.csv as it is
\* (also when fresh is asked for), merge_players writes no output, and
\* transfermarkt_players scrapes and writes nothing.
C20_MissingInputsFatal ==
  /\ [](/\ DetailInputMissing => (dpc \in {"start", "error"} /\ dtried = <<>>)
        /\ ResolverInputMissing =>
             (rpc \in {"start", "missing"} /\ ~merged_written)
        /\ TmPlayersInputMissing =>
             (tpc \in {"start", "missing_file", "missing_columns"}
                /\ ~players_written))
  /\ [][DetailInputMissing => stats_csv' = stats_csv]_vars

\* fresh was asked for, the URL list is absent, the old rows are still there
C20_Witness ==
  /\ which = "detail"
  /\ dpc = "error"
  /\ dfresh
  /\ ~urls_file.exists
  /\ stats_csv.exists
  /\ Len(stats_csv.rows) = 1

(***************************************************************************)
(* transfermarkt_clubs.py: normalize_text; tfmkt_pipeline.py: norm         *)
(***************************************************************************)
MaxText == 3      \* longest string given to a normalizer

\* unicodedata.normalize("NFKD", s) on one character
NFKDChar(c) ==
  CASE c = "e_acute" -> <<"e", "acute">>
    [] c = "E_acute" -> <<"E", "acute">>
    [] c = "u_acute" -> <<"u", "acute">>
    [] c = "n_tilde" -> <<"n", "tilde">>
    [] c = "numero"  -> <<"N", "o">>
    [] c = "nbsp"    -> <<" ">>
    [] OTHER -> <<c>>

RECURSIVE NFKD(_)
NFKD(s) == IF s = <<>> THEN <<>> ELSE NFKDChar(Head(s)) \o NFKD(Tail(s))

\* unicodedata.combining(ch) is not 0
combining(ch) == ch \in {"acute", "tilde"}

\* "".join(ch for ch in s if not unicodedata.combining(ch))
StripCombining(s) == SelectSeq(s, LAMBDA ch : ~combining(ch))

\* s.replace("–", "-").replace("—", "-")
ReplaceDashes(s) ==
  [i \in 1..Len(s) |-> IF s[i] \in {"en_dash", "em_dash"} THEN "-" ELSE s[i]]

\* str.strip()
RECURSIVE LStrip(_)
LStrip(s) == IF s # <<>> /\ Head(s) = " " THEN LStrip(Tail(s)) ELSE s

RECURSIVE RStrip(_)
RStrip(s) ==
  IF s # <<>> /\ s[Len(s)] = " " THEN RStrip(SubSeq(s, 1, Len(s) - 1)) ELSE s

Strip(s) == RStrip(LStrip(s))

\* isinstance(s, str)
IsStr(s) == s \notin {NaN, Number}

normalize_text_marks_first(s) ==
  IF ~IsStr(s) THEN <<>>
  ELSE LowerStr(Strip(Join(Split(ReplaceDashes(NFKD(StripCombining(s)))))))

\* transfermarkt_clubs.py lines 8-15
normalize_text(s) ==
  IF ~IsStr(s) THEN <<>>
  ELSE LowerStr(Strip(Join(Split(ReplaceDashes(StripCombining(NFKD(s)))))))

\* tfmkt_pipeline.py lines 51-57
norm(s) ==
  IF ~IsStr(s) THEN <<>>
  ELSE Join(Split(LowerStr(ReplaceDashes(StripCombining(NFKD(s))))))

(***************************************************************************)
(* The pure functions, each applied once to an argument                    *)
(***************************************************************************)
\* the characters of the strings given to the normalizers
TextChars ==
  {"a", "J", "E_acute", "numero", "sharp_s", " ", "nbsp", "en_dash", "1", "."}

Texts == SeqsUpTo(TextChars, MaxText)

Normalizers == {"normalize_name", "normalize_text", "norm"}

\* merge_players.py lines 46-47: .apply(normalize_name)
CallNormalizeName ==
  /\ which = "function"
  /\ fpc = "call"
  /\ fn = "normalize_name"
  /\ fres' = normalize_name(farg)
  /\ fpc' = "return"
  /\ UNCHANGED <<fn, farg>>
  /\ UNCHANGED <<rvars, which, listing, base_ok, cvars, pvars, dvars, tvars,
                 lvars>>

\* transfermarkt_clubs.py line 45: .map(normalize_text)
CallNormalizeText ==
  /\ which = "function"
  /\ fpc = "call"
  /\ fn = "normalize_text"
  /\ fres' = normalize_text(farg)
  /\ fpc' = "return"
  /\ UNCHANGED <<fn, farg>>
  /\ UNCHANGED <<rvars, which, listing, base_ok, cvars, pvars, dvars, tvars,
                 lvars>>

\* tfmkt_pipeline.py lines 142-187: norm(...) on a league or a club name
CallNorm ==
  /\ which = "function"
  /\ fpc = "call"
  /\ fn = "norm"
  /\ fres' = norm(farg)
  /\ fpc' = "return"
  /\ UNCHANGED <<fn, farg>>
  /\ UNCHANGED <<rvars, which, listing, base_ok, cvars, pvars, dvars, tvars,
                 lvars>>

(***************************************************************************)
(* clean_sofifa_clubs.py: _normalize_league.  A cell is a sequence of      *)
(* tokens; a token is a space or a run of text without outer spaces.       *)
(***************************************************************************)
\* lines 36-49
canon ==
  [l \in {"Serie A", "Serie B", "Premier League", "Bundesliga", "La Liga",
          "Ligue 1", "Ligue 2", "Eredivisie", "EFL Championship",
          "EFL League One", "EFL League Two", "Scottish Premiership"} |->
     CASE l = "Ligue 1" -> "Ligue 1 Uber Eats"
       [] l = "Ligue 2" -> "Ligue 2 BKT"
       [] OTHER -> l]

\* lines 53-58
ProLeagueOf ==
  [c \in {"Belgium", "Saudi Arabia", "Saudi", "United Arab Emirates", "UAE"} |->
     CASE c = "Belgium" -> "Belgian Pro League"
       [] c \in {"Saudi Arabia", "Saudi"} -> "Saudi Pro League"
       [] OTHER -> "UAE Pro League"]

\* lines 60-67
SuperLeagueOf ==
  [c \in {"Greece", "India", "Switzerland", "China"} |->
     CASE c = "Greece" -> "Greek Super League"
       [] c = "India" -> "Indian Super League"
       [] c = "Switzerland" -> "Swiss Super League"
       [] OTHER -> "Chinese Super League"]

\* the text of a stripped cell ("" when nothing is left)
TextOf(cell) ==
  LET s == Strip(cell)
  IN IF s = <<>> THEN "" ELSE IF Len(s) = 1 THEN s[1] ELSE "<several tokens>"

_normalize_league_without_country(league_cell, country_cell) ==
  LET league == TextOf(league_cell)
  IN IF league \in DOMAIN canon THEN canon[league] ELSE league

\* _normalize_league (lines 33-68) on row = {league, country}
_normalize_league(league_cell, country_cell) ==
  LET league0 == TextOf(league_cell)
      country == TextOf(country_cell)
      league == IF league0 \in DOMAIN canon THEN canon[league0] ELSE league0
  IN IF league = "Pro League" /\ country \in DOMAIN ProLeagueOf
       THEN ProLeagueOf[country]
     ELSE IF league = "Super League" /\ country \in DOMAIN SuperLeagueOf
       THEN SuperLeagueOf[country]
     ELSE league

\* the league and country cells of club_stats_raw.csv after line 93
\* (astype(str).map(_norm_space)): a missing cell reads "nan"
LeagueCells ==
  {<<l>> : l \in DOMAIN canon \cup {"Pro League", "Super League",
                                     "Mystery League", "nan"}}

CountryCells ==
  {<<c>> : c \in DOMAIN ProLeagueOf \cup DOMAIN SuperLeagueOf
                  \cup {"France", "Nowhere", "nan"}}

\* line 99: df.apply(_normalize_league, axis=1)
CallNormalizeLeague ==
  /\ which = "function"
  /\ fpc = "call"
  /\ fn = "_normalize_league"
  /\ fres' = _normalize_league(farg[1], farg[2])
  /\ fpc' = "return"
  /\ UNCHANGED <<fn, farg>>
  /\ UNCHANGED <<rvars, which, listing, base_ok, cvars, pvars, dvars, tvars,
                 lvars>>

(***************************************************************************)
(* Money strings: transfermarkt_clubs.py clean_money,                      *)
(* transfermarkt_players.py money_to_eur, clean_sofifa_clubs.py            *)
(* _parse_club_worth.  A float is kept as [m, e], the number m * 10^e      *)
(* with m not a multiple of ten.                                           *)
(***************************************************************************)
MaxMoney == 4     \* longest money string

\* str.upper() on one character
UpperChar(c) ==
  CASE c = "b" -> "B"
    [] c = "k" -> "K"
    [] c = "m" -> "M"
    [] c = "n" -> "N"
    [] OTHER -> c

UpperStr(s) == [i \in 1..Len(s) |-> UpperChar(s[i])]

\* s.replace(c, "") for the characters c of a set
RemoveChars(s, chars) == SelectSeq(s, LAMBDA c : c \notin chars)

\* sub in s
Contains(s, sub) ==
  \E i \in 1..(Len(s) - Len(sub) + 1) : SubSeq(s, i, i + Len(sub) - 1) = sub

\* s.replace(sub, "")
RECURSIVE RemoveSub(_, _)
RemoveSub(s, sub) ==
  IF Len(s) < Len(sub) THEN s
  ELSE IF SubSeq(s, 1, Len(sub)) = sub
    THEN RemoveSub(SubSeq(s, Len(sub) + 1, Len(s)), sub)
  ELSE <<Head(s)>> \o RemoveSub(Tail(s), sub)

\* s.endswith(suffix)
EndsWith(s, suffix) ==
  Len(s) >= Len(suffix) /\ SubSeq(s, Len(s) - Len(suffix) + 1, Len(s)) = suffix

\* s[:-n]
DropLast(s, n) == SubSeq(s, 1, Len(s) - n)

Digits == {"0", "1", "2", "3", "4", "5", "6", "7", "8", "9"}

DigitValue(d) ==
  CASE d = "0" -> 0 [] d = "1" -> 1 [] d = "2" -> 2 [] d = "3" -> 3
    [] d = "4" -> 4 [] d = "5" -> 5 [] d = "6" -> 6 [] d = "7" -> 7
    [] d = "8" -> 8 [] OTHER -> 9

RECURSIVE DigitsValue(_)
DigitsValue(s) ==
  IF s = <<>> THEN 0 ELSE DigitsValue(DropLast(s, 1)) * 10 + DigitValue(s[Len(s)])

RECURSIVE Float(_, _)
Float(m, e) ==
  IF m = 0 THEN [m |-> 0, e |-> 0]
  ELSE IF m % 10 = 0 THEN Float(m \div 10, e + 1)
  ELSE [m |-> m, e |-> e]

\* float(v) failed
ValueError == [error |-> "ValueError"]

\* None and numpy.nan as results
NoValue == [null |-> "None"]
np_nan == [null |-> "nan"]

\* float(v) for a string of digits with at most one point
float(v) ==
  LET s == Strip(v)
      points == {i \in 1..Len(s) : s[i] = "."}
      digits == RemoveChars(s, {"."})
  IN IF digits = <<>> \/ Cardinality(points) > 1
        \/ \E i \in 1..Len(digits) : digits[i] \notin Digits
       THEN ValueError
     ELSE LET decimals == IF points = {} THEN 0
                          ELSE Len(s) - (CHOOSE i \in points : TRUE)
          IN Float(DigitsValue(digits), 0 - decimals)

\* x * 10^k
TimesTenTo(x, k) == Float(x.m, x.e + k)

\* transfermarkt_clubs.py lines 144-162
clean_money(val) ==
  IF ~IsStr(val) \/ Strip(val) = <<>> THEN NoValue
  ELSE LET v == LowerStr(Strip(RemoveChars(val, {"euro", ","})))
           bn == Contains(v, <<"b", "n">>)
           m == ~bn /\ Contains(v, <<"m">>)
           k == ~bn /\ ~m /\ Contains(v, <<"k">>)
           number == IF bn THEN RemoveSub(v, <<"b", "n">>)
                     ELSE IF m THEN RemoveSub(v, <<"m">>)
                     ELSE IF k THEN RemoveSub(v, <<"k">>)
                     ELSE v
           multiplier == IF bn THEN 9 ELSE IF m THEN 6 ELSE IF k THEN 3 ELSE 0
       IN IF float(number) = ValueError THEN NoValue
          ELSE TimesTenTo(float(number), multiplier)

\* transfermarkt_players.py lines 22-39
money_to_eur(val) ==
  IF ~IsStr(val) \/ Strip(val) = <<>> THEN NoValue
  ELSE LET v == LowerStr(Strip(RemoveChars(val, {"euro", ","})))
           bn == EndsWith(v, <<"b", "n">>)
           m == ~bn /\ EndsWith(v, <<"m">>)
           k == ~bn /\ ~m /\ EndsWith(v, <<"k">>)
           number == IF bn THEN DropLast(v, 2)
                     ELSE IF m \/ k THEN DropLast(v, 1)
                     ELSE v
           mult == IF bn THEN 9 ELSE IF m THEN 6 ELSE IF k THEN 3 ELSE 0
       IN IF float(number) = ValueError THEN NoValue
          ELSE TimesTenTo(float(number), mult)

\* clean_sofifa_clubs.py lines 71-85: the result is in millions
_parse_club_worth(value) ==
  IF ~IsStr(value) THEN np_nan
  ELSE LET v == UpperStr(Strip(RemoveChars(value, {"euro", ","})))
           suffixed == EndsWith(v, <<"B">>) \/ EndsWith(v, <<"M">>)
                         \/ EndsWith(v, <<"K">>)
           number == IF suffixed THEN DropLast(v, 1) ELSE v
           power == IF EndsWith(v, <<"B">>) THEN 3
                    ELSE IF EndsWith(v, <<"M">>) THEN 0
                    ELSE IF EndsWith(v, <<"K">>) THEN 0 - 3
                    ELSE 0 - 6
       IN IF v = <<>> THEN np_nan
          ELSE IF float(number) = ValueError THEN np_nan
          ELSE TimesTenTo(float(number), power)

\* the characters of a money string
MoneyChars == {"euro", ",", ".", "1", "k", "m", "b", "n", "M"}

MoneyTexts == SeqsUpTo(MoneyChars, MaxMoney)

MoneyParsers == {"clean_money", "money_to_eur", "_parse_club_worth"}

\* transfermarkt_clubs.py lines 303-304
CallCleanMoney ==
  /\ which = "function"
  /\ fpc = "call"
  /\ fn = "clean_money"
  /\ fres' = clean_money(farg)
  /\ fpc' = "return"
  /\ UNCHANGED <<fn, farg>>
  /\ UNCHANGED <<rvars, which, listing, base_ok, cvars, pvars, dvars, tvars,
                 lvars>>

\* transfermarkt_players.py line 162
CallMoneyToEur ==
  /\ which = "function"
  /\ fpc = "call"
  /\ fn = "money_to_eur"
  /\ fres' = money_to_eur(farg)
  /\ fpc' = "return"
  /\ UNCHANGED <<fn, farg>>
  /\ UNCHANGED <<rvars, which, listing, base_ok, cvars, pvars, dvars, tvars,
                 lvars>>

\* clean_sofifa_clubs.py line 102
CallParseClubWorth ==
  /\ which = "function"
  /\ fpc = "call"
  /\ fn = "_parse_club_worth"
  /\ fres' = _parse_club_worth(farg)
  /\ fpc' = "return"
  /\ UNCHANGED <<fn, farg>>
  /\ UNCHANGED <<rvars, which, listing, base_ok, cvars, pvars, dvars, tvars,
                 lvars>>

(***************************************************************************)
(* remove_duplicates.py: filter_players.  A frame is [columns, rows]; a    *)
(* row is a function from the columns to cell values.                      *)
(***************************************************************************)
MaxRows == 2      \* rows of the players CSV

\* line 27
DEFAULT_DEDUP_KEYS == {"club_id", "player_id", "player_name"}

\* df.drop_duplicates(subset=subset, keep="first") on the rows
RECURSIVE drop_duplicates(_, _)
drop_duplicates(rows, subset) ==
  IF rows = <<>> THEN <<>>
  ELSE LET last == rows[Len(rows)]
           before == DropLast(rows, 1)
           seen == \E i \in 1..Len(before) :
                     \A k \in subset : before[i][k] = last[k]
       IN IF seen THEN drop_duplicates(before, subset)
          ELSE Append(drop_duplicates(before, subset), last)

\* the keys that are columns of the frame, whatever their number
PresentKeys(columns, keys) == keys \cap columns

\* filter_players (lines 30-60): [raised, written, columns, rows]
filter_players(input, dedup_keys) ==
  IF ~input.exists
    THEN [raised |-> TRUE, written |-> FALSE, columns |-> {}, rows |-> <<>>]
  ELSE IF input.rows = <<>>
    THEN [raised |-> FALSE, written |-> FALSE, columns |-> {}, rows |-> <<>>]
  ELSE LET keys == IF dedup_keys # {} THEN dedup_keys ELSE DEFAULT_DEDUP_KEYS
           found == PresentKeys(input.columns, keys)
           subset_keys == IF found = {} THEN input.columns ELSE found
       IN [raised |-> FALSE, written |-> TRUE, columns |-> input.columns,
           rows |-> drop_duplicates(input.rows, subset_keys)]

\* the column sets of a players CSV and the values of a cell
PlayerColumnSets ==
  {DEFAULT_DEDUP_KEYS \cup {"age"}, {"player_name", "age"},
   {"player_id", "player_name"}, {"age"}}

CellValues == {1, 2}

PlayerFiles ==
  {[exists |-> FALSE, columns |-> {}, rows |-> <<>>]}
    \cup UNION {{[exists |-> TRUE, columns |-> c, rows |-> r] :
                   r \in SeqsUpTo([c -> CellValues], MaxRows)} :
                c \in PlayerColumnSets}

\* main (lines 74-76): --subset defaults to DEFAULT_DEDUP_KEYS; an empty
\* list is replaced by the default on line 41
CallFilterPlayers ==
  /\ which = "function"
  /\ fpc = "call"
  /\ fn = "filter_players"
  /\ fres' = filter_players(farg[1], farg[2])
  /\ fpc' = "return"
  /\ UNCHANGED <<fn, farg>>
  /\ UNCHANGED <<rvars, which, listing, base_ok, cvars, pvars, dvars, tvars,
                 lvars>>

(***************************************************************************)
(* transfermarkt_clubs.py: league_map, fallback_urls, get_candidate_urls   *)
(***************************************************************************)
\* lines 56-109 (URLs without "https://www."; accented letters of league
\* names are written without their accent)
league_map ==
  [l \in {"Premier League", "EFL Championship", "EFL League One",
          "EFL League Two", "La Liga", "La Liga 2",
          "Serie A", "Serie B", "Bundesliga",
          "2. Bundesliga", "3. Liga", "Ligue 1 Uber Eats",
          "Ligue 2 BKT", "Eredivisie", "Primeira Liga",
          "Belgian Pro League", "Turkish Super Lig", "Swiss Super League",
          "Scottish Premiership", "Greek Super League", "A-League Men",
          "Major League Soccer", "Ekstraklasa", "Superliga",
          "Allsvenskan", "Eliteserien", "Liga I",
          "Czech First League", "Hrvatska nogometna liga", "Nemzeti Bajnoksag I",
          "Indian Super League", "Saudi Pro League", "UAE Pro League",
          "Irish Premier Division", "Cypriot First Division", "K League 1",
          "Veikkausliiga", "Premyer Liqa", "Division de Futbol Profesional",
          "Primera Division"} |->
     CASE l = "Premier League" ->
         "transfermarkt.com/premier-league/startseite/wettbewerb/GB1"
       [] l = "EFL Championship" ->
         "transfermarkt.com/championship/startseite/wettbewerb/GB2"
       [] l = "EFL League One" ->
         "transfermarkt.com/league-one/startseite/wettbewerb/GB3"
       [] l = "EFL League Two" ->
         "transfermarkt.com/league-two/startseite/wettbewerb/GB4"
       [] l = "La Liga" ->
         "transfermarkt.com/primera-division/startseite/wettbewerb/ES1"
       [] l = "La Liga 2" ->
         "transfermarkt.com/laliga2/startseite/wettbewerb/ES2"
       [] l = "Serie A" ->
         "transfermarkt.com/serie-a/startseite/wettbewerb/IT1"
       [] l = "Serie B" ->
         "transfermarkt.com/serie-b/startseite/wettbewerb/IT2"
       [] l = "Bundesliga" ->
         "transfermarkt.com/bundesliga/startseite/wettbewerb/L1"
       [] l = "2. Bundesliga" ->
         "transfermarkt.com/2-bundesliga/startseite/wettbewerb/L2"
       [] l = "3. Liga" ->
         "transfermarkt.com/3-liga/startseite/wettbewerb/L3"
       [] l = "Ligue 1 Uber Eats" ->
         "transfermarkt.com/ligue-1/startseite/wettbewerb/FR1"
       [] l = "Ligue 2 BKT" ->
         "transfermarkt.com/ligue-2/startseite/wettbewerb/FR2"
       [] l = "Eredivisie" ->
         "transfermarkt.com/eredivisie/startseite/wettbewerb/NL1"
       [] l = "Primeira Liga" ->
         "transfermarkt.com/liga-portugal/startseite/wettbewerb/PO1"
       [] l = "Belgian Pro League" ->
         "transfermarkt.com/jupiler-pro-league/startseite/wettbewerb/BE1"
       [] l = "Turkish Super Lig" ->
         "transfermarkt.com/super-lig/startseite/wettbewerb/TR1"
       [] l = "Swiss Super League" ->
         "transfermarkt.com/super-league/startseite/wettbewerb/C1"
       [] l = "Scottish Premiership" ->
         "transfermarkt.com/scottish-premiership/startseite/wettbewerb/SC1"
       [] l = "Greek Super League" ->
         "transfermarkt.com/super-league/startseite/wettbewerb/GR1"
       [] l = "A-League Men" ->
         "transfermarkt.com/a-league/startseite/wettbewerb/AUS1"
       [] l = "Major League Soccer" ->
         "transfermarkt.com/major-league-soccer/startseite/wettbewerb/MLS1"
       [] l = "Ekstraklasa" ->
         "transfermarkt.com/ekstraklasa/startseite/wettbewerb/PL1"
       [] l = "Superliga" ->
         "transfermarkt.com/superligaen/startseite/wettbewerb/DK1"
       [] l = "Allsvenskan" ->
         "transfermarkt.com/allsvenskan/startseite/wettbewerb/SE1"
       [] l = "Eliteserien" ->
         "transfermarkt.com/eliteserien/startseite/wettbewerb/NO1"
       [] l = "Liga I" ->
         "transfermarkt.com/liga-1/startseite/wettbewerb/RO1"
       [] l = "Czech First League" ->
         "transfermarkt.com/1-fotbalova-liga/startseite/wettbewerb/TS1"
       [] l = "Hrvatska nogometna liga" ->
         "transfermarkt.com/1-hnl/startseite/wettbewerb/KR1"
       [] l = "Nemzeti Bajnoksag I" ->
         "transfermarkt.com/nb-i/startseite/wettbewerb/UNG1"
       [] l = "Indian Super League" ->
         "transfermarkt.com/indian-super-league/startseite/wettbewerb/IND1"
       [] l = "Saudi Pro League" ->
         "transfermarkt.com/saudi-professional-league/startseite/wettbewerb/SA1"
       [] l = "UAE Pro League" ->
         "transfermarkt.com/uae-pro-league/startseite/wettbewerb/UAE1"
       [] l = "Irish Premier Division" ->
         "transfermarkt.com/league-of-ireland-premier-division/startseite/wettbewerb/IR1"
       [] l = "Cypriot First Division" ->
         "transfermarkt.com/1-division/startseite/wettbewerb/ZYP1"
       [] l = "K League 1" ->
         "transfermarkt.com/k-league-1/startseite/wettbewerb/RSK1"
       [] l = "Veikkausliiga" ->
         "transfermarkt.com/veikkausliiga/startseite/wettbewerb/FI1"
       [] l = "Premyer Liqa" ->
         "transfermarkt.com/premyer-liqasi/startseite/wettbewerb/AZ1"
       [] l = "Division de Futbol Profesional" ->
         "transfermarkt.com/division-profesional/startseite/wettbewerb/BOL1"
       [] OTHER ->
         "transfermarkt.com/torneo-apertura/startseite/wettbewerb/ARG1"]

\* lines 112-140
fallback_urls ==
  [l \in {"Primeira Liga", "La Liga", "Division de Futbol Profesional",
          "Primera Division", "Indian Super League", "Greek Super League",
          "Saudi Pro League", "UAE Pro League"} |->
     CASE l = "Primeira Liga" ->
         <<"transfermarkt.com/primeira-liga/startseite/wettbewerb/PO1">>
       [] l = "La Liga" ->
         <<"transfermarkt.com/laliga/startseite/wettbewerb/ES1">>
       [] l = "Division de Futbol Profesional" ->
         <<"transfermarkt.fr/division-profesional-apertura/startseite/wettbewerb/BO1A">>
       [] l = "Primera Division" ->
         <<"transfermarkt.fr/torneo-apertura/startseite/wettbewerb/ARG1">>
       [] l = "Indian Super League" ->
         <<"transfermarkt.com/super-league-india/startseite/wettbewerb/IND1",
           "transfermarkt.com/isl/startseite/wettbewerb/IND1">>
       [] l = "Greek Super League" ->
         <<"transfermarkt.fr/super-league/startseite/wettbewerb/GR1">>
       [] l = "Saudi Pro League" ->
         <<"transfermarkt.com/saudi-pro-league/startseite/wettbewerb/SA1",
           "transfermarkt.fr/saudi-professional-league/startseite/wettbewerb/SA1">>
       [] OTHER ->
         <<"transfermarkt.com/arabian-gulf-league/startseite/wettbewerb/UAE1",
           "transfermarkt.fr/uae-pro-league/startseite/wettbewerb/UAE1">>]

\* "for x in xs: if x not in candidates: candidates.append(x)"
AppendNew(cands, xs) == cands \o Unseen(xs, Range(cands))

\* get_candidate_urls (lines 165-202); countries are the lower-cased
\* countries of the SoFIFA rows whose league is "Super League"
get_candidate_urls(league_name, countries) ==
  LET primary == IF league_name \in DOMAIN league_map
                   THEN <<league_map[league_name]>> ELSE <<>>
      alts == IF league_name \in DOMAIN fallback_urls
                THEN fallback_urls[league_name] ELSE <<>>
      listed == AppendNew(primary, alts)
      swiss == IF league_name = "Super League" /\ "switzerland" \in countries
                 THEN AppendNew(listed,
                        <<"transfermarkt.com/super-league/startseite/wettbewerb/C1">>)
                 ELSE listed
  IN IF league_name = "Super League" /\ countries \cap {"china", "china pr"} # {}
       THEN AppendNew(swiss,
              <<"transfermarkt.com/chinese-super-league/startseite/wettbewerb/CSL",
                "transfermarkt.fr/chinese-super-league/startseite/wettbewerb/CSL">>)
       ELSE swiss

\* the labels _normalize_league can return for a listed country, and the
\* targets of its rename rules
QualifiedLabels ==
  {ProLeagueOf[c] : c \in DOMAIN ProLeagueOf}
    \cup {SuperLeagueOf[c] : c \in DOMAIN SuperLeagueOf}

RenameTargets == {canon[l] : l \in DOMAIN canon}

\* the values of the league_name column (line 49)
LeagueNames ==
  DOMAIN league_map \cup DOMAIN fallback_urls \cup QualifiedLabels
    \cup RenameTargets \cup {"Super League", "Pro League", "Mystery League"}

SuperLeagueCountries == SUBSET {"switzerland", "china", "china pr"}

\* line 225
CallGetCandidateUrls ==
  /\ which = "function"
  /\ fpc = "call"
  /\ fn = "get_candidate_urls"
  /\ fres' = get_candidate_urls(farg[1], farg[2])
  /\ fpc' = "return"
  /\ UNCHANGED <<fn, farg>>
  /\ UNCHANGED <<rvars, which, listing, base_ok, cvars, pvars, dvars, tvars,
                 lvars>>

Functions == Normalizers \cup {"_normalize_league"} \cup MoneyParsers
               \cup {"filter_players", "get_candidate_urls"}

\* the arguments a function is applied to
ArgsOf(f) ==
  CASE f \in Normalizers -> Texts \cup {NaN, Number}
    [] f = "_normalize_league" -> LeagueCells \X CountryCells
    [] f \in MoneyParsers -> MoneyTexts \cup {NaN}
    [] f = "filter_players" -> PlayerFiles \X {{}, DEFAULT_DEDUP_KEYS}
    [] f = "get_candidate_urls" -> LeagueNames \X SuperLeagueCountries

InitFun ==
  /\ which = "function"
  /\ listing = <<>>
  /\ base_ok = TRUE
  /\ RIdle
  /\ CIdle
  /\ PIdle
  /\ DIdle
  /\ TIdle
  /\ LIdle
  /\ fpc = "call"
  /\ fn \in Functions
  /\ farg \in ArgsOf(fn)
  /\ fres = <<>>

NextFun ==
  \/ CallNormalizeName \/ CallNormalizeText \/ CallNorm
  \/ CallNormalizeLeague
  \/ CallCleanMoney \/ CallMoneyToEur \/ CallParseClubWorth
  \/ CallFilterPlayers \/ CallGetCandidateUrls

SpecFun == InitFun /\ [][NextFun]_vars

(***************************************************************************)
(* Properties of the pure functions                                        *)
(***************************************************************************)
\* C21: each text normalizer (normalize_name, normalize_text, norm) is
\* idempotent: applied to the string it returned for a string argument, it
\* returns that string again.
C21_Idempotent ==
  (fpc = "return" /\ fn \in Normalizers /\ IsStr(farg)) =>
    CASE fn = "normalize_name" -> normalize_name(fres) = fres
      [] fn = "normalize_text" -> normalize_text(fres) = fres
      [] OTHER -> norm(fres) = fres

C21_Witness ==
  /\ fpc = "return"
  /\ fn = "normalize_text"
  /\ farg = <<"nbsp", "E_acute", "en_dash">>
  /\ fres = <<"e", "-">>

\* a lower-case letter, ASCII or not
IsLowerLetter(c) == c \in LowerLetters \cup {"e_acute", "u_acute", "n_tilde", "sharp_s"}

\* no space at either end and no two spaces in a row
SingleSpaced(s) ==
  /\ s # <<>> => s[1] # " " /\ s[Len(s)] # " "
  /\ \A i \in 1..(Len(s) - 1) : ~(s[i] = " " /\ s[i + 1] = " ")

\* C22: every normalizer returns, for every argument, a string made of
\* lower-case letters and single spaces only, without a space at either end,
\* and returns the empty string for a missing argument; it never raises.
C22_LettersAndSpacesOnly ==
  (fpc = "return" /\ fn \in Normalizers) =>
    /\ fres # AttributeError
    /\ \A i \in 1..Len(fres) : IsLowerLetter(fres[i]) \/ fres[i] = " "
    /\ SingleSpaced(fres)
    /\ farg = NaN => fres = <<>>

\* the label and the country of the call
LabelOfCall == farg[1][1]
CountryOfCall == farg[2][1]

\* the label once the rename rules are applied
RenamedLabel ==
  IF LabelOfCall \in DOMAIN canon THEN canon[LabelOfCall] ELSE LabelOfCall

\* the country selects a qualified label for the renamed label
CountryListed ==
  \/ RenamedLabel = "Pro League" /\ CountryOfCall \in DOMAIN ProLeagueOf
  \/ RenamedLabel = "Super League" /\ CountryOfCall \in DOMAIN SuperLeagueOf

\* C23: _normalize_league returns a string for every (label, country): the
\* country-qualified label when the renamed label is ambiguous and the country
\* is in the disambiguation table, otherwise the renamed label, which is the
\* label itself when no rename rule applies.
C23_ThreeStepRule ==
  (fpc = "return" /\ fn = "_normalize_league") =>
    /\ fres \in STRING
    /\ CountryListed =>
         fres = IF RenamedLabel = "Pro League" THEN ProLeagueOf[CountryOfCall]
                ELSE SuperLeagueOf[CountryOfCall]
    /\ ~CountryListed => fres = RenamedLabel
    /\ (LabelOfCall \notin DOMAIN canon /\ ~CountryListed) => fres = LabelOfCall
    /\ (LabelOfCall = "Super League" /\ CountryOfCall = "Switzerland")
         => fres = "Swiss Super League"
    /\ (LabelOfCall = "Mystery League" /\ CountryOfCall = "Nowhere")
         => fres = "Mystery League"

C23_Witness ==
  /\ fpc = "return"
  /\ fn = "_normalize_league"
  /\ farg = <<<<"Super League">>, <<"Switzerland">>>>
  /\ fres = "Swiss Super League"

\* a money parser applied to a value
Parsed(f, x) ==
  CASE f = "clean_money" -> clean_money(x)
    [] f = "money_to_eur" -> money_to_eur(x)
    [] OTHER -> _parse_club_worth(x)

IsNull(x) == x \in {NoValue, np_nan}

IsFloat(x) == x \in [m : Nat, e : Int]

\* the magnitude suffixes and their powers of ten
Suffixes ==
  {[text |-> <<"k">>, power |-> 3], [text |-> <<"m">>, power |-> 6],
   [text |-> <<"b", "n">>, power |-> 9], [text |-> <<"b">>, power |-> 9]}

\* C24: each money parser returns a number or null for every value; a value
\* with suffix k, m, bn or b is 10^3, 10^6 or 10^9 times the value without the
\* suffix; the euro sign and commas change nothing; and the three parsers
\* return the same number for the same value.
C24_OneUnit ==
  (fpc = "return" /\ fn \in MoneyParsers) =>
    /\ IsNull(fres) \/ IsFloat(fres)
    /\ \A s \in Suffixes :
         (IsStr(farg) /\ EndsWith(farg, s.text)
            /\ IsFloat(Parsed(fn, DropLast(farg, Len(s.text)))))
           => fres = TimesTenTo(Parsed(fn, DropLast(farg, Len(s.text))), s.power)
    /\ IsStr(farg) => fres = Parsed(fn, RemoveChars(farg, {"euro", ","}))
    /\ \A g \in MoneyParsers :
         (IsNull(Parsed(g, farg)) /\ IsNull(fres)) \/ Parsed(g, farg) = fres

\* the first row of each group of rows that agree on the keys, in order
RECURSIVE FirstOfEachGroup(_, _, _)
FirstOfEachGroup(rows, keys, kept) ==
  IF rows = <<>> THEN kept
  ELSE IF \E i \in 1..Len(kept) : \A k \in keys : kept[i][k] = Head(rows)[k]
    THEN FirstOfEachGroup(Tail(rows), keys, kept)
  ELSE FirstOfEachGroup(Tail(rows), keys, Append(kept, Head(rows)))

\* C25: filter_players with the default keys writes the input rows with
\* only the first row of each group of duplicates and every column; the
\* groups are those of (club_id, player_id, player_name) when the three
\* columns are present and those of identical rows when one of them is
\* missing.
C25_FirstOfDuplicatesOnly ==
  (fpc = "return" /\ fn = "filter_players" /\ fres.written
     /\ farg[2] \in {{}, DEFAULT_DEDUP_KEYS}) =>
    /\ fres.columns = farg[1].columns
    /\ fres.rows =
         FirstOfEachGroup(farg[1].rows,
                          IF DEFAULT_DEDUP_KEYS \subseteq farg[1].columns
                            THEN DEFAULT_DEDUP_KEYS ELSE farg[1].columns,
                          <<>>)

\* C30: get_candidate_urls returns at least one candidate URL for every
\* country-qualified label of _normalize_league and for every target of its
\* rename rules, so none of them is skipped as unrecognized.
C30_CanonicalLeaguesRecognized ==
  (fpc = "return" /\ fn = "get_candidate_urls"
     /\ farg[1] \in QualifiedLabels \cup RenameTargets) =>
    fres # <<>>

(***************************************************************************)
(* transfermarkt_clubs.py: the league loop (lines 224-334) and the save    *)
(* (lines 337-345)                                                         *)
(***************************************************************************)
\* "for attempt in range(2)"
attempts == 2

\* leagues of the SoFIFA file, as sorted(...) orders them (line 49)
LeagueOrder ==
  <<"Indian Super League", "La Liga", "Mystery League", "Serie A",
    "Super League">>

RECURSIVE Keep(_, _)
Keep(s, chosen) ==
  IF s = <<>> THEN <<>>
  ELSE (IF Head(s) \in chosen THEN <<Head(s)>> ELSE <<>>) \o Keep(Tail(s), chosen)

LeagueLists == {Keep(LeagueOrder, c) : c \in SUBSET Range(LeagueOrder)}

\* the clubs one page can yield
ClubLists == {<<"c1">>, <<"c1", "c2">>, <<"c1", "c1">>}

LInit ==
  /\ lpc = "league"
  /\ unique_leagues \in LeagueLists
  /\ lidx = 1
  /\ candidates = <<>>
  /\ cidx = 1
  /\ attempt = 0
  /\ league_collected = <<>>
  /\ tm_results = <<>>
  /\ requested = <<>>

\* lines 224-231: the candidates of the next league; a league without one
\* is skipped
LeagueBegin ==
  /\ which = "tmclubs"
  /\ lpc = "league"
  /\ lidx <= Len(unique_leagues)
  /\ \E countries \in SuperLeagueCountries :
       candidates' = get_candidate_urls(unique_leagues[lidx], countries)
  /\ IF candidates' = <<>>
       THEN lpc' = "league" /\ lidx' = lidx + 1
       ELSE lpc' = "goto" /\ lidx' = lidx
  /\ cidx' = 1
  /\ attempt' = 0
  /\ league_collected' = <<>>
  /\ requested' = <<>>
  /\ UNCHANGED <<unique_leagues, tm_results>>
  /\ UNCHANGED <<rvars, which, listing, base_ok, cvars, pvars, dvars, tvars,
                 fvars>>

retry_always(outcome, att) == outcome \in {"no_rows", "raise"}

\* lines 250-253 and 315-323: the attempt is repeated once when the page
\* has no row or the attempt raised
retry(outcome, att) == outcome \in {"no_rows", "raise"} /\ att + 1 < attempts

\* the records of a page (lines 255-308)
Records(league, url, clubs) ==
  [i \in 1..Len(clubs) |->
     [league_name |-> league, club |-> clubs[i], source_url |-> url]]

\* one attempt on the current candidate (lines 242-327): "records" (rows
\* with at least one club kept), "no_records" (rows, none kept), "no_rows",
\* "raise"
LeagueGoto ==
  /\ which = "tmclubs"
  /\ lpc = "goto"
  /\ requested' = Append(requested, candidates[cidx])
  /\ \E outcome \in {"records", "no_records", "no_rows", "raise"} :
       IF outcome = "records"
         THEN /\ \E clubs \in ClubLists :
                   league_collected' =
                     Records(unique_leagues[lidx], candidates[cidx], clubs)
              /\ lpc' = "collected"
              /\ UNCHANGED <<cidx, attempt>>
       ELSE IF retry(outcome, attempt)
         THEN /\ attempt' = attempt + 1
              /\ UNCHANGED <<lpc, cidx, league_collected>>
       ELSE /\ attempt' = 0
            /\ cidx' = cidx + 1
            /\ lpc' = IF cidx < Len(candidates) THEN "goto" ELSE "collected"
            /\ UNCHANGED league_collected
  /\ UNCHANGED <<unique_leagues, lidx, candidates, tm_results>>
  /\ UNCHANGED <<rvars, which, listing, base_ok, cvars, pvars, dvars, tvars,
                 fvars>>

\* lines 329-334: nothing collected, or the records are added to results
LeagueEnd ==
  /\ which = "tmclubs"
  /\ lpc = "collected"
  /\ tm_results' = tm_results \o league_collected
  /\ lidx' = lidx + 1
  /\ lpc' = "league"
  /\ UNCHANGED <<unique_leagues, candidates, cidx, attempt, league_collected,
                 requested>>
  /\ UNCHANGED <<rvars, which, listing, base_ok, cvars, pvars, dvars, tvars,
                 fvars>>

\* df.drop_duplicates(subset=["league_name", "club"], keep="last")
RECURSIVE drop_duplicates_keep_last(_, _)
drop_duplicates_keep_last(rows, subset) ==
  IF rows = <<>> THEN <<>>
  ELSE LET later == Tail(rows)
           again == \E i \in 1..Len(later) :
                      \A k \in subset : later[i][k] = Head(rows)[k]
       IN IF again THEN drop_duplicates_keep_last(later, subset)
          ELSE <<Head(rows)>> \o drop_duplicates_keep_last(later, subset)

\* lines 337-345: the loop is over, the frame is deduplicated and written
LeagueSave ==
  /\ which = "tmclubs"
  /\ lpc = "league"
  /\ lidx > Len(unique_leagues)
  /\ tm_results' = drop_duplicates_keep_last(tm_results, {"league_name", "club"})
  /\ lpc' = "done"
  /\ UNCHANGED <<unique_leagues, lidx, candidates, cidx, attempt,
                 league_collected, requested>>
  /\ UNCHANGED <<rvars, which, listing, base_ok, cvars, pvars, dvars, tvars,
                 fvars>>

InitLeagues ==
  /\ which = "tmclubs"
  /\ listing = <<>>
  /\ base_ok = TRUE
  /\ RIdle
  /\ CIdle
  /\ PIdle
  /\ DIdle
  /\ TIdle
  /\ FIdle
  /\ LInit

NextLeagues == LeagueBegin \/ LeagueGoto \/ LeagueEnd \/ LeagueSave

SpecLeagues == InitLeagues /\ [][NextLeagues]_vars

(***************************************************************************)
(* Properties of the league loop                                           *)
(***************************************************************************)
\* position of a URL in the candidates of the current league
CandidateIndex(url) == CHOOSE k \in 1..Len(candidates) : candidates[k] = url

\* the requests follow the order of the candidates, skip none, and repeat
\* none more than twice
RequestedInOrder ==
  /\ \A i \in 1..Len(requested) : requested[i] \in Range(candidates)
  /\ \A i \in 1..(Len(requested) - 1) :
       CandidateIndex(requested[i]) <= CandidateIndex(requested[i + 1])
         /\ CandidateIndex(requested[i + 1]) <= CandidateIndex(requested[i]) + 1
  /\ requested # <<>> => requested[1] = candidates[1]
  /\ \A u \in Range(requested) :
       Cardinality({i \in 1..Len(requested) : requested[i] = u}) <= 2

\* the leagues that have been dealt with
LeaguesDone == {unique_leagues[k] : k \in 1..(lidx - 1)}

\* C29: for each league the candidates are requested in their order (primary,
\* then fallbacks), each at most twice; once a candidate has yielded a record
\* nothing more is requested and all records of the league come from that
\* candidate, the last one requested; a league without records adds nothing
\* to results and the loop goes on to the next league.
C29_FirstYieldingCandidate ==
  /\ RequestedInOrder
  /\ lpc = "goto" => league_collected = <<>>
  /\ \A i \in 1..Len(league_collected) :
       league_collected[i].source_url = requested[Len(requested)]
  /\ \A i, j \in 1..Len(tm_results) :
       /\ tm_results[i].league_name \in LeaguesDone
       /\ tm_results[i].league_name = tm_results[j].league_name
            => tm_results[i].source_url = tm_results[j].source_url
  /\ lpc = "done" => lidx = Len(unique_leagues) + 1

C29_Witness ==
  /\ lpc = "collected"
  /\ unique_leagues[lidx] = "La Liga"
  /\ "Indian Super League" \in LeaguesDone
  /\ requested = <<candidates[1], candidates[1], candidates[2]>>
  /\ Len(league_collected) = 2
  /\ tm_results = <<>>

(***************************************************************************)
(* Properties of the detail stage across runs                              *)
(***************************************************************************)
\* the checkpoint holds a row for the URL, by url or by club id
HasRow(u, rows) ==
  \E i \in 1..Len(rows) :
    \/ rows[i].url = u
    \/ extract_club_id_from_url(u) # ""
         /\ rows[i].club_id = extract_club_id_from_url(u)

\* the listed URLs without a row in the checkpoint, cut to --limit
ToAttempt(listed, rows, limit) ==
  LET open == SelectSeq(listed, LAMBDA u : ~HasRow(u, rows))
  IN IF limit # NoLimit /\ limit # 0 THEN Take(open, limit) ELSE open

\* a non-fresh run of the detail stage that has its target list
ResumedRun == which = "detail" /\ dpc \in {"loop", "done"} /\ ~dfresh

C28_FailedPageAddsNothing ==
  [][(ClubPage /\ cexhausted') =>
       /\ all_club_urls' = all_club_urls
       /\ club_csv' = club_csv
       /\ coffset' = coffset + page_size]_vars

(***************************************************************************)
(* soFIFAClubs.py: main, the two stages in one process                     *)
(***************************************************************************)
InitPipeline ==
  /\ which = "pipeline"
  /\ listing \in SeqsUpTo(PageChoices, MaxPages)
  /\ base_ok = TRUE
  /\ RIdle
  /\ CInit
  /\ PIdle
  /\ DInit
  /\ stats_csv = NoFile
  /\ Len(urls_file.rows) <= 1
  /\ TIdle
  /\ FIdle
  /\ LIdle

NextPipeline ==
  \/ ClubMain \/ ClubPage \/ ClubExit
  \/ DetailMain \/ DetailScrape \/ DetailExit

SpecPipeline == InitPipeline /\ [][NextPipeline]_vars

\* C26: in soFIFAClubs.main the URL list that load_urls reads is the
\* club_urls.csv that the URL scraper wrote: stage 2 starts with the URLs of
\* that file and does not stop for want of it.
C26_HandoffSameFile ==
  (which = "pipeline" /\ dpc \in {"loop", "done", "error"}) =>
    /\ dpc # "error"
    /\ club_urls = [i \in 1..Len(club_csv.rows) |-> TeamUrl(club_csv.rows[i])]

====
